---- MODULE Spec2Model ----
(***************************************************************************)
(* slack-feed-enricher: the mrkdwn chunker of claude/summarizer.py and the *)
(* polling worker of worker.py, as state machines.                         *)
(*                                                                         *)
(*   SplitSpec  one call of _split_mrkdwn_text(text, MaxLength); one       *)
(*              action per iteration of its while loop.                    *)
(*   Spec       run(): passes of enrich_and_reply_pending_messages, one    *)
(*              action per stretch of code between two suspension points.  *)
(*                                                                         *)
(* Strings are sequences of one-character strings; positions are 0-based   *)
(* as in the source.                                                       *)
(***************************************************************************)
EXTENDS Integers, Sequences, FiniteSets, TLC

VARIABLES
    \* ---- _split_mrkdwn_text ----
    text,            \* the argument
    chunks,          \* list[str]
    remaining,       \* str
    offset,          \* int
    in_code_block,   \* bool
    spc,             \* position in the function: "entry" | "loop" | "returned" | "idle"
    cuts,            \* history: for every chunk, how it was cut and what was injected
    \* ---- the environment of the worker ----
    kinds,           \* the channel's messages in the order conversations_history returns them: "url" | "nourl" (what extract_urls finds)
    thread,          \* for every message of the channel, the replies in its thread
    message_limit,   \* the message_limit argument: the limit of the history call
    post_rejected,   \* the message whose thread Slack would reject a reply to, or 0
    mode,            \* "run": run(polling_interval) | "call": one direct call of the pass
    timeout,         \* the timeout argument of the pass: NoTimeout or seconds
    hatebu_client,   \* whether a bookmark client was passed
    \* ---- run and enrich_and_reply_pending_messages ----
    rpc,             \* "pass" | "sleep" | "returned" | "cancelled" | "crashed" | "idle"
    wpc,             \* the await the pass is suspended at, or "check" (loop head), or "idle"
    messages,        \* the fetched candidates (indices into the channel)
    idx,             \* i, the loop index (0-based)
    success_count,
    error_count,
    skipped_count,
    elapsed,         \* time.time() - start_time
    result,          \* <<the EnrichAndReplyResult last returned>>, or None
    \* ---- history of the current pass ----
    fate,            \* for every candidate iterated so far: <<"success" | "error" | "skipped", where>>
    durations,       \* for every candidate iterated so far: how long its processing took
    item_start,      \* elapsed when the current candidate was started
    last_post,       \* the last reply post attempted: <<message, part>>, or None
    raised,          \* the last exception raised at an await of the candidate in flight: <<class, await>>, or None
    hatebu_entry,    \* the bookmark data of the candidate in flight: a HatebuEntry, or None
    hatebu_calls,    \* history: the fetch_entry calls of the pass, <<loop index, url argument>>
    pass_no,         \* history: the number of the pass of this run, saturating at MaxPasses
    \* ---- send_enriched_messages and SlackClient.post_thread_reply, called on their own ----
    send_call,       \* "send_enriched_messages" | "post_thread_reply" | "none"
    send_client,     \* "SlackClient": the class of slack/client.py | "accepts_blocks": a client whose post_thread_reply takes blocks
    send_ts,         \* the thread_ts argument: the message replied to, or 0
    send_pc,         \* the await the call is suspended at, or "returned" | "raised" | "cancelled" | "idle"
    send_posted,     \* the parts whose ts the call has collected so far
    send_events,     \* history: the posts and sleeps of the call, in order
    \* -- resolve_urls(extracted) -------------------------------------------
    extracted,       \* the argument: [main_url, supplementary_urls]
    upc,             \* "idle" | "entry" | "loop" | "decoding" | "returned" | "raised" | "cancelled"
    url_index,       \* the list position being resolved: 0 for main_url, k for the k-th supplementary URL
    resolved_main,   \* resolved_main, or None before it is set
    resolved_supplementary,
    resolved,        \* what resolve_urls returned: <<ExtractedUrls>>, or None
    resolver_calls,  \* the list positions resolve_url was called for, in call order
    decoder_calls,   \* the URLs new_decoderv1 was invoked with, in call order
    decoder_started, \* the thread has taken up new_decoderv1 for the call that is awaited
    \* -- extract_urls(message) ---------------------------------------------
    message_text,    \* message.text
    epc,             \* "idle" | "entry" | "returned"
    matches,         \* the merged matches after the sort: [start, end, url, notation]
    \* -- fetch_and_summarize(query_func, url) ------------------------------
    fetch_url,       \* the url argument: "" or a URL
    stream,          \* the messages query_func will yield, in order
    stream_pos,      \* how many of them the async for has consumed
    result_message,  \* <<the last ResultMessage seen>>, or None
    fpc,             \* "idle" | "entry" | "stream" | "returned" | "raised"
    query_invoked,   \* whether query_func was called
    fetch_result,    \* <<"return", "EnrichResult">>, <<"raise", class>>, or None
    \* -- _escape_slack_special_chars(text) ---------------------------------
    mrkdwn,          \* the text argument
    parts,           \* code_block_pattern.split(text): plain and code parts in turn
    part_index,      \* i of the loop over the parts (0-based)
    pieces,          \* result: what was appended so far, with what it was made from
    xpc,             \* "idle" | "entry" | "loop" | "returned"
    escaped          \* the string returned

splitVars == <<text, chunks, remaining, offset, in_code_block, spc, cuts>>

envVars == <<kinds, thread, mode, timeout, hatebu_client, message_limit, post_rejected>>

passVars == <<rpc, wpc, messages, idx, success_count, error_count, skipped_count,
              elapsed, result>>

histVars == <<fate, durations, item_start, last_post>>

sendVars == <<send_call, send_client, send_ts, send_pc, send_posted, send_events>>

workerVars == <<envVars, passVars, histVars, raised, hatebu_entry, hatebu_calls, pass_no,
                sendVars>>

extractVars == <<message_text, epc, matches>>
fetchVars == <<fetch_url, stream, stream_pos, result_message, fpc, query_invoked,
               fetch_result>>
escapeVars == <<mrkdwn, parts, part_index, pieces, xpc, escaped>>
urlVars == <<extracted, upc, url_index, resolved_main, resolved_supplementary, resolved,
             resolver_calls, decoder_calls, decoder_started,
             extractVars, fetchVars, escapeVars>>
vars == <<splitVars, workerVars, urlVars>>

(***************************************************************************)
(* Bounds and program constants.                                           *)
(***************************************************************************)
\* max_length of the call (the source's default is 3000)
MaxLength == 13
\* the input text is a concatenation of at most MaxTokens tokens
MaxTokens == 5
\* fence_len: the length of a reopen or closing fence marker
FenceLen == 4
\* the channel holds at most MaxMessages messages
MaxMessages == 3
\* polling_interval ranges over 0..MaxInterval
MaxInterval == 2
\* the clock of a pass saturates at MaxElapsed
MaxElapsed == 4
\* an await other than asyncio.sleep takes 0..MaxStep seconds
MaxStep == 1
\* the pass counter of run saturates at MaxPasses
MaxPasses == 2
\* asyncio.sleep(1.0) between two posts of send_enriched_messages
PostDelay == 1

\* timeout=None
NoTimeout == 0 - 1
\* no value yet: no result returned, no post made
None == <<>>

NL == "\n"
\* the backtick, which a TLA+ string cannot hold, is written as a caret
BT == "^"

Fence == <<BT, BT, BT>>
ReopenMarker == <<BT, BT, BT, NL>>
CloseMarker == <<NL, BT, BT, BT>>

EntityAmp == <<"&", "a", "m", "p", ";">>
EntityLt == <<"&", "l", "t", ";">>
EntityGt == <<"&", "g", "t", ";">>
Entities == <<EntityAmp, EntityLt, EntityGt>>

Min(a, b) == IF a <= b THEN a ELSE b

(***************************************************************************)
(* Python string primitives.                                               *)
(***************************************************************************)
\* s[a:b] for 0 <= a, with b clipped to len(s)
Slice(s, a, b) == SubSeq(s, a + 1, Min(b, Len(s)))

\* s[a:]
SliceFrom(s, a) == SubSeq(s, a + 1, Len(s))

\* s[i:i+len(sub)] == sub
MatchesAt(s, sub, i) ==
    /\ i >= 0
    /\ i + Len(sub) <= Len(s)
    /\ SubSeq(s, i + 1, i + Len(sub)) = sub

\* s.find(sub, from): the lowest index >= from where sub occurs, or -1
Find(s, sub, from) ==
    LET hits == {i \in from..(Len(s) - Len(sub)) : MatchesAt(s, sub, i)}
    IN  IF hits = {} THEN -1 ELSE CHOOSE i \in hits : \A j \in hits : i <= j

\* s.rfind(c, 0, hi) for a one-character c: the highest index < hi, or -1
RFind(s, c, hi) ==
    LET hits == {i \in 0..(Min(hi, Len(s)) - 1) : s[i + 1] = c}
    IN  IF hits = {} THEN -1 ELSE CHOOSE i \in hits : \A j \in hits : i >= j

(***************************************************************************)
(* The input texts: concatenations of at most MaxTokens tokens, chosen so  *)
(* that fences, link tokens, entities and newlines meet the chunk limit in *)
(* every alignment.                                                        *)
(***************************************************************************)
Tokens ==
    << <<"x">>,
       <<"x", "x", "x", "x">>,
       <<NL>>,
       Fence,
       <<"<", "x", "x">>,
       <<"x", ">">>,
       EntityAmp,
       EntityLt >>

RECURSIVE Flatten(_, _)
Flatten(ts, k) ==
    IF k > Len(ts) THEN <<>> ELSE Tokens[ts[k]] \o Flatten(ts, k + 1)

Texts ==
    {Flatten(ts, 1) : ts \in UNION {[1..n -> 1..Len(Tokens)] : n \in 0..MaxTokens}}

(***************************************************************************)
(* _find_code_block_ranges, _is_inside_code_block, _is_inside_slack_link,  *)
(* _find_safe_newline, _adjust_for_entity_boundary.                        *)
(***************************************************************************)
RECURSIVE CodeRangesFrom(_, _)
CodeRangesFrom(s, pos) ==
    IF pos >= Len(s)
    THEN <<>>
    ELSE LET start == Find(s, Fence, pos)
         IN  IF start = -1
             THEN <<>>
             ELSE LET end == Find(s, Fence, start + 3)
                  IN  IF end = -1
                      THEN << <<start, Len(s)>> >>
                      ELSE << <<start, end + 3>> >> \o CodeRangesFrom(s, end + 3)

FindCodeBlockRanges(s) == CodeRangesFrom(s, 0)

IsInsideCodeBlock(pos, code_ranges) ==
    \E k \in 1..Len(code_ranges) :
        code_ranges[k][1] <= pos /\ pos < code_ranges[k][2]

IsInsideSlackLink(s, pos) ==
    LET last_open == RFind(s, "<", pos)
    IN  IF last_open = -1
        THEN FALSE
        ELSE Find(s, <<">">>, last_open) >= pos

RECURSIVE SafeNewlineFrom(_, _, _, _)
SafeNewlineFrom(rem, pos, code_ranges, off) ==
    IF pos <= 0
    THEN -1
    ELSE LET p == RFind(rem, NL, pos)
         IN  IF p <= 0
             THEN -1
             ELSE IF ~IsInsideCodeBlock(off + p, code_ranges)
                  THEN p
                  ELSE SafeNewlineFrom(rem, p - 1, code_ranges, off)

\* the last newline below the limit, inside code or not
FindAnyNewline(rem, max_length, code_ranges, off) ==
    RFind(rem, NL, Min(max_length, Len(rem)))

FindSafeNewline(rem, max_length, code_ranges, off) ==
    SafeNewlineFrom(rem, Min(max_length, Len(rem)), code_ranges, off)

\* does an entity that starts at check_pos reach beyond pos
EntityStraddles(s, check_pos, pos) ==
    \E e \in 1..Len(Entities) :
        /\ MatchesAt(s, Entities[e], check_pos)
        /\ check_pos + Len(Entities[e]) > pos

RECURSIVE AdjustFrom(_, _, _)
AdjustFrom(s, pos, k) ==
    IF k >= Len(EntityAmp)
    THEN pos
    ELSE LET check_pos == pos - k
         IN  IF check_pos < 0
             THEN pos
             ELSE IF check_pos >= Len(s)
                  THEN AdjustFrom(s, pos, k + 1)
                  ELSE IF s[check_pos + 1] = "&" /\ EntityStraddles(s, check_pos, pos)
                       THEN check_pos
                       ELSE AdjustFrom(s, pos, k + 1)

\* a split position that is left where it is
NoEntityAdjust(s, pos) == pos

AdjustForEntityBoundary(s, pos) == AdjustFrom(s, pos, 0)

(***************************************************************************)
(* One iteration of the while loop of _split_mrkdwn_text.                  *)
(***************************************************************************)
ReopenCost(icb) == IF icb THEN FenceLen ELSE 0

EffectiveMax(icb) == MaxLength - ReopenCost(icb)

\* will_split_in_code: taken at the effective limit, before any adjustment
WillSplitInCode(rem, off, icb, code_ranges) ==
    IsInsideCodeBlock(off + Min(EffectiveMax(icb), Len(rem)), code_ranges)

\* a closing fence that is paid for at every forced split
CloseCostAlways(wsc) == FenceLen

CloseCost(wsc) == IF wsc THEN FenceLen ELSE 0

\* an adjustment that always cuts before the link, also when the link is at the
\* head of the remaining text
LinkAdjustedAlwaysBefore(rem, split_pos) ==
    IF IsInsideSlackLink(rem, split_pos)
    THEN LET link_start == RFind(rem, "<", split_pos)
         IN  IF link_start >= 0 THEN link_start ELSE split_pos
    ELSE split_pos

\* the adjustment that keeps a forced split out of a link token
LinkAdjusted(rem, split_pos) ==
    IF IsInsideSlackLink(rem, split_pos)
    THEN LET link_start == RFind(rem, "<", split_pos)
         IN  IF link_start >= 0
             THEN IF link_start > 0
                  THEN link_start
                  ELSE LET link_end == Find(rem, <<">">>, split_pos)
                       IN  IF link_end >= 0
                           THEN Min(link_end + 1, Len(rem))
                           ELSE split_pos
             ELSE split_pos
    ELSE split_pos

\* split_pos of a forced split, after both adjustments
ForcedSplitPos(rem, icb, wsc) ==
    AdjustForEntityBoundary(rem, LinkAdjusted(rem, EffectiveMax(icb) - CloseCost(wsc)))

\* the chunk a forced split emits
ForcedChunk(rem, split_pos, icb, wsc) ==
    (IF icb THEN ReopenMarker ELSE <<>>)
        \o Slice(rem, 0, split_pos)
        \o (IF wsc THEN CloseMarker ELSE <<>>)

\* the chunk a newline split emits
NewlineChunk(rem, newline_pos, icb) ==
    (IF icb THEN ReopenMarker ELSE <<>>) \o Slice(rem, 0, newline_pos)

\* a newline split that leaves the newline at the head of the rest
NewlineAdvanceKeepsNewline(newline_pos) == newline_pos

\* what is left after a newline split, and how far the offset moves
NewlineAdvance(newline_pos) == newline_pos + 1

\* the last chunk
LastChunk(rem, icb) == (IF icb THEN ReopenMarker ELSE <<>>) \o rem

Cut(kind, reopen, close) == [kind |-> kind, reopen |-> reopen, close |-> close]

\* the worker is not running
\* neither send_enriched_messages nor post_thread_reply is called on its own
SenderIdle ==
    /\ send_call = "none"
    /\ send_client = "SlackClient"
    /\ send_ts = 0
    /\ send_pc = "idle"
    /\ send_posted = <<>>
    /\ send_events = <<>>

WorkerIdle ==
    /\ SenderIdle
    /\ kinds = <<>>
    /\ thread = <<>>
    /\ mode = "call"
    /\ timeout = NoTimeout
    /\ hatebu_client = FALSE
    /\ message_limit = 0
    /\ post_rejected = 0
    /\ rpc = "idle"
    /\ wpc = "idle"
    /\ messages = <<>>
    /\ idx = 0
    /\ success_count = 0
    /\ error_count = 0
    /\ skipped_count = 0
    /\ elapsed = 0
    /\ result = None
    /\ fate = <<>>
    /\ durations = <<>>
    /\ item_start = 0
    /\ last_post = None
    /\ raised = None
    /\ hatebu_entry = None
    /\ hatebu_calls = <<>>
    /\ pass_no = 0

\* resolve_urls is not running
ResolverIdle ==
    /\ extracted = <<>>
    /\ upc = "idle"
    /\ url_index = 0
    /\ resolved_main = <<>>
    /\ resolved_supplementary = <<>>
    /\ resolved = <<>>
    /\ resolver_calls = <<>>
    /\ decoder_calls = <<>>
    /\ decoder_started = FALSE

\* extract_urls is not running
ExtractorIdle ==
    /\ message_text = <<>>
    /\ epc = "idle"
    /\ matches = <<>>

\* fetch_and_summarize is not running
SummarizerIdle ==
    /\ fetch_url = ""
    /\ stream = <<>>
    /\ stream_pos = 0
    /\ result_message = <<>>
    /\ fpc = "idle"
    /\ query_invoked = FALSE
    /\ fetch_result = <<>>

\* _escape_slack_special_chars is not running
EscaperIdle ==
    /\ mrkdwn = <<>>
    /\ parts = <<>>
    /\ part_index = 0
    /\ pieces = <<>>
    /\ xpc = "idle"
    /\ escaped = <<>>

SplitInit ==
    /\ WorkerIdle
    /\ ResolverIdle
    /\ ExtractorIdle
    /\ SummarizerIdle
    /\ EscaperIdle
    /\ text \in Texts
    /\ chunks = <<>>
    /\ remaining = <<>>
    /\ offset = 0
    /\ in_code_block = FALSE
    /\ spc = "entry"
    /\ cuts = <<>>

\* if len(text) <= max_length: return [text]
SplitShort ==
    /\ spc = "entry"
    /\ Len(text) <= MaxLength
    /\ chunks' = <<text>>
    /\ cuts' = <<Cut("whole", FALSE, FALSE)>>
    /\ spc' = "returned"
    /\ UNCHANGED <<text, remaining, offset, in_code_block, workerVars, urlVars>>

\* the initialisation before the loop
SplitEnter ==
    /\ spc = "entry"
    /\ Len(text) > MaxLength
    /\ remaining' = text
    /\ offset' = 0
    /\ in_code_block' = FALSE
    /\ chunks' = <<>>
    /\ spc' = "loop"
    /\ UNCHANGED <<text, cuts, workerVars, urlVars>>

\* the remaining text fits: append it and break
LoopLast ==
    /\ spc = "loop"
    /\ remaining # <<>>
    /\ Len(remaining) <= EffectiveMax(in_code_block)
    /\ chunks' = Append(chunks, LastChunk(remaining, in_code_block))
    /\ cuts' = Append(cuts, Cut("last", in_code_block, FALSE))
    /\ spc' = "returned"
    /\ UNCHANGED <<text, remaining, offset, in_code_block, workerVars, urlVars>>

\* split at a newline outside code
LoopNewline ==
    /\ spc = "loop"
    /\ remaining # <<>>
    /\ Len(remaining) > EffectiveMax(in_code_block)
    /\ LET newline_pos == FindSafeNewline(remaining, EffectiveMax(in_code_block),
                                          FindCodeBlockRanges(text), offset)
       IN  /\ newline_pos > 0
           /\ chunks' = Append(chunks, NewlineChunk(remaining, newline_pos, in_code_block))
           /\ cuts' = Append(cuts, Cut("newline", in_code_block, FALSE))
           /\ in_code_block' = FALSE
           /\ remaining' = SliceFrom(remaining, NewlineAdvance(newline_pos))
           /\ offset' = offset + NewlineAdvance(newline_pos)
    /\ UNCHANGED <<text, spc, workerVars, urlVars>>

\* forced split
LoopForced ==
    /\ spc = "loop"
    /\ remaining # <<>>
    /\ Len(remaining) > EffectiveMax(in_code_block)
    /\ FindSafeNewline(remaining, EffectiveMax(in_code_block),
                       FindCodeBlockRanges(text), offset) <= 0
    /\ LET will_split_in_code ==
               WillSplitInCode(remaining, offset, in_code_block, FindCodeBlockRanges(text))
           split_pos == ForcedSplitPos(remaining, in_code_block, will_split_in_code)
       IN  /\ chunks' = Append(chunks, ForcedChunk(remaining, split_pos, in_code_block,
                                                   will_split_in_code))
           /\ cuts' = Append(cuts, Cut("forced", in_code_block, will_split_in_code))
           /\ in_code_block' = will_split_in_code
           /\ remaining' = SliceFrom(remaining, split_pos)
           /\ offset' = offset + split_pos
    /\ UNCHANGED <<text, spc, workerVars, urlVars>>

\* while remaining: the loop ends when nothing is left
LoopExit ==
    /\ spc = "loop"
    /\ remaining = <<>>
    /\ spc' = "returned"
    /\ UNCHANGED <<text, chunks, remaining, offset, in_code_block, cuts, workerVars, urlVars>>

SplitNext ==
    \/ SplitShort
    \/ SplitEnter
    \/ LoopLast
    \/ LoopNewline
    \/ LoopForced
    \/ LoopExit

SplitSpec == SplitInit /\ [][SplitNext]_vars

(***************************************************************************)
(* worker.py: run and enrich_and_reply_pending_messages.                   *)
(*                                                                         *)
(* Every await is a suspension point: the awaited call returns, raises, or *)
(* the task is cancelled there.  The clock of a pass advances while the    *)
(* pass is suspended.  The call of fetch_and_summarize passes the keyword  *)
(* hatebu_entry, which the function of claude/summarizer.py does not take: *)
(* it raises TypeError before anything is awaited, the handler of the loop *)
(* counts the candidate as an error, and send_enriched_messages is never   *)
(* reached.                                                                *)
(***************************************************************************)
Exceptions == {"Exception", "CancelledError"}

\* s is an initial segment of t
IsPrefix(s, t) == Len(s) <= Len(t) /\ s = SubSeq(t, 1, Len(s))

\* a handler that catches BaseException as well
CatchesEverything(exc) == TRUE

\* an except Exception clause: asyncio.CancelledError derives from BaseException
ExceptExceptionCatches(exc) == exc = "Exception"

\* a budget that counts as exhausted only once it is exceeded
BudgetExceeded(t, e) == t # NoTimeout /\ e > t

\* if timeout is not None: elapsed = time.time() - start_time; if elapsed >= timeout
BudgetExhausted(t, e) == t # NoTimeout /\ e >= t

Tick(d) == Min(elapsed + d, MaxElapsed)

\* SlackClient.fetch_channel_history: conversations_history(channel, limit)
\* answers with the first limit messages of the channel
FetchChannelHistory(limit) == [k \in 1..Min(Len(kinds), limit) |-> k]

\* [msg for msg in all_messages if msg.reply_count == 0], from position k on
RECURSIVE UnrepliedFrom(_, _)
UnrepliedFrom(all_messages, k) ==
    IF k > Len(all_messages)
    THEN <<>>
    ELSE (IF Len(thread[all_messages[k]]) = 0 THEN <<all_messages[k]>> ELSE <<>>)
             \o UnrepliedFrom(all_messages, k + 1)

\* a fetch that returns the history it was given, replied or not
FetchAllMessages(limit) == FetchChannelHistory(limit)

\* SlackClient.fetch_unreplied_messages(channel_id, limit)
FetchUnrepliedMessages(limit) == UnrepliedFrom(FetchChannelHistory(limit), 1)

EnrichAndReplyResult(p, s, e, k, t, r) ==
    [processed_count |-> p, success_count |-> s, error_count |-> e,
     skipped_count |-> k, timed_out |-> t, remaining_count |-> r]

\* what fetch_entry returns: a HatebuEntry, or None
HatebuEntries == {None, <<"HatebuEntry">>}

\* thread_ts=message.ts: the thread a candidate's replies are posted to
ThreadOf(candidate) == candidate

\* the candidate the loop is at
Current == messages[idx + 1]

ChunkerIdle ==
    /\ text = <<>>
    /\ chunks = <<>>
    /\ remaining = <<>>
    /\ offset = 0
    /\ in_code_block = FALSE
    /\ spc = "idle"
    /\ cuts = <<>>

Init ==
    /\ ChunkerIdle
    /\ ResolverIdle
    /\ ExtractorIdle
    /\ SummarizerIdle
    /\ EscaperIdle
    /\ SenderIdle
    /\ kinds \in UNION {[1..n -> {"url", "nourl"}] : n \in 0..MaxMessages}
    /\ thread \in [1..Len(kinds) -> {<<>>, <<"reply">>}]
    /\ message_limit \in 1..MaxMessages
    /\ post_rejected \in 0..Len(kinds)
    /\ \/ mode = "run" /\ timeout \in 0..MaxInterval
       \/ mode = "call" /\ timeout = NoTimeout
    /\ hatebu_client \in BOOLEAN
    /\ rpc = "pass"
    /\ wpc = "fetch"
    /\ messages = <<>>
    /\ idx = 0
    /\ success_count = 0
    /\ error_count = 0
    /\ skipped_count = 0
    /\ elapsed = 0
    /\ result = None
    /\ fate = <<>>
    /\ durations = <<>>
    /\ item_start = 0
    /\ last_post = None
    /\ raised = None
    /\ hatebu_entry = None
    /\ hatebu_calls = <<>>
    /\ pass_no = 1

\* an exception that no handler of the pass or of run catches leaves run
Propagate(exc) ==
    /\ rpc' = (IF exc = "CancelledError" THEN "cancelled" ELSE "crashed")
    /\ wpc' = "idle"
    /\ UNCHANGED <<envVars, sendVars, pass_no, messages, idx, success_count, error_count, skipped_count,
                   elapsed, result, histVars, hatebu_entry, hatebu_calls,
                   splitVars, urlVars>>

\* the pass returns r: run goes to sleep, a direct call is over
Return(r) ==
    /\ result' = <<r>>
    /\ rpc' = (IF mode = "run" THEN "sleep" ELSE "returned")
    /\ wpc' = "idle"
    /\ UNCHANGED <<envVars, sendVars, pass_no, messages, idx, success_count, error_count, skipped_count,
                   elapsed, histVars, raised, hatebu_entry, hatebu_calls,
                   splitVars, urlVars>>

\* the end of a candidate: the loop moves on to the next one
ItemEnds(outcome) ==
    /\ fate' = Append(fate, <<outcome, wpc>>)
    /\ durations' = Append(durations, elapsed' - item_start)
    /\ idx' = idx + 1
    /\ wpc' = "check"

\* a handler that logs the failure and forgets to count it
ItemFailsUncounted(d) ==
    /\ elapsed' = Tick(d)
    /\ ItemEnds("error")
    /\ UNCHANGED <<envVars, sendVars, pass_no, rpc, messages, success_count, error_count, skipped_count,
                   result, item_start, last_post, hatebu_entry, hatebu_calls,
                   splitVars, urlVars>>

\* a handler that counts the failed candidate as a success
ItemFailsCountsSuccess(d) ==
    /\ success_count' = success_count + 1
    /\ elapsed' = Tick(d)
    /\ ItemEnds("success")
    /\ UNCHANGED <<envVars, sendVars, pass_no, rpc, messages, error_count, skipped_count, result,
                   item_start, last_post, hatebu_entry, hatebu_calls,
                   splitVars, urlVars>>

\* except Exception as e: error_count += 1
ItemFails(d) ==
    /\ error_count' = error_count + 1
    /\ elapsed' = Tick(d)
    /\ ItemEnds("error")
    /\ UNCHANGED <<envVars, sendVars, pass_no, rpc, messages, success_count, skipped_count, result,
                   item_start, last_post, hatebu_entry, hatebu_calls,
                   splitVars, urlVars>>

\* messages = await slack_client.fetch_unreplied_messages(...); the counters; start_time
FetchReturns ==
    /\ rpc = "pass"
    /\ wpc = "fetch"
    /\ messages' = FetchUnrepliedMessages(message_limit)
    /\ success_count' = 0
    /\ error_count' = 0
    /\ skipped_count' = 0
    /\ elapsed' = 0
    /\ idx' = 0
    /\ wpc' = "check"
    /\ fate' = <<>>
    /\ durations' = <<>>
    /\ item_start' = 0
    /\ last_post' = None
    /\ raised' = None
    /\ hatebu_entry' = None
    /\ hatebu_calls' = <<>>
    /\ UNCHANGED <<envVars, sendVars, pass_no, rpc, result, splitVars, urlVars>>

\* the fetch raises, or the task is cancelled in it: the await is outside the try
FetchRaises(exc) ==
    /\ rpc = "pass"
    /\ wpc = "fetch"
    /\ raised' = <<exc, wpc>>
    /\ Propagate(exc)

\* a timeout result that leaves the candidate at idx out of remaining_count
CheckTimedOutOffByOne ==
    /\ rpc = "pass"
    /\ wpc = "check"
    /\ idx < Len(messages)
    /\ BudgetExhausted(timeout, elapsed)
    /\ Return(EnrichAndReplyResult(idx, success_count, error_count, skipped_count,
                                   TRUE, Len(messages) - idx - 1))

\* the timeout check finds the budget exhausted before candidate idx
CheckTimedOut ==
    /\ rpc = "pass"
    /\ wpc = "check"
    /\ idx < Len(messages)
    /\ BudgetExhausted(timeout, elapsed)
    /\ Return(EnrichAndReplyResult(idx, success_count, error_count, skipped_count,
                                   TRUE, Len(messages) - idx))

\* a candidate without a URL that is sent through the pipeline all the same
SkipItemResolves ==
    /\ rpc = "pass"
    /\ wpc = "check"
    /\ idx < Len(messages)
    /\ ~BudgetExhausted(timeout, elapsed)
    /\ kinds[Current] = "nourl"
    /\ item_start' = elapsed
    /\ wpc' = "resolve"
    /\ raised' = None
    /\ UNCHANGED <<envVars, sendVars, pass_no, rpc, messages, idx, success_count, error_count,
                   skipped_count, elapsed, result, fate, durations, last_post,
                   hatebu_entry, hatebu_calls,
                   splitVars, urlVars>>

\* extract_urls finds no main_url: skipped_count += 1; continue
SkipItem ==
    /\ rpc = "pass"
    /\ wpc = "check"
    /\ idx < Len(messages)
    /\ ~BudgetExhausted(timeout, elapsed)
    /\ kinds[Current] = "nourl"
    /\ skipped_count' = skipped_count + 1
    /\ elapsed' = elapsed
    /\ item_start' = elapsed
    /\ fate' = Append(fate, <<"skipped", wpc>>)
    /\ durations' = Append(durations, 0)
    /\ idx' = idx + 1
    /\ wpc' = "check"
    /\ UNCHANGED <<envVars, sendVars, pass_no, rpc, messages, success_count, error_count, result,
                   last_post, raised, hatebu_entry, hatebu_calls,
                   splitVars, urlVars>>

\* extract_urls finds a main_url: await resolve_urls(extracted)
BeginItem ==
    /\ rpc = "pass"
    /\ wpc = "check"
    /\ idx < Len(messages)
    /\ ~BudgetExhausted(timeout, elapsed)
    /\ kinds[Current] = "url"
    /\ item_start' = elapsed
    /\ wpc' = "resolve"
    /\ raised' = None
    /\ UNCHANGED <<envVars, sendVars, pass_no, rpc, messages, idx, success_count, error_count,
                   skipped_count, elapsed, result, fate, durations, last_post,
                   hatebu_entry, hatebu_calls,
                   splitVars, urlVars>>

\* a final return that looks at the budget once more after the last candidate
LoopDoneChecksBudget ==
    /\ rpc = "pass"
    /\ wpc = "check"
    /\ idx = Len(messages)
    /\ Return(EnrichAndReplyResult(Len(messages), success_count, error_count,
                                   skipped_count, BudgetExhausted(timeout, elapsed), 0))

\* the for loop is exhausted: the result of a pass that did not time out
LoopDone ==
    /\ rpc = "pass"
    /\ wpc = "check"
    /\ idx = Len(messages)
    /\ Return(EnrichAndReplyResult(Len(messages), success_count, error_count,
                                   skipped_count, FALSE, 0))

\* resolved.main_url of a candidate
ResolvedMainUrl(candidate) == <<"resolved.main_url", candidate>>

\* a pass that looks the bookmarks up whether or not a client was passed
ResolveReturnsAlwaysLooksUp(d) ==
    /\ rpc = "pass"
    /\ wpc = "resolve"
    /\ elapsed' = Tick(d)
    /\ wpc' = "hatebu"
    /\ hatebu_entry' = None
    /\ hatebu_calls' = Append(hatebu_calls, <<idx, ResolvedMainUrl(Current)>>)
    /\ UNCHANGED <<envVars, sendVars, pass_no, rpc, messages, idx, success_count, error_count,
                   skipped_count, result, histVars, raised, splitVars, urlVars>>

\* resolve_urls returns; if hatebu_client is not None, fetch_entry is called
\* with resolved.main_url
ResolveReturns(d) ==
    /\ rpc = "pass"
    /\ wpc = "resolve"
    /\ elapsed' = Tick(d)
    /\ wpc' = (IF hatebu_client THEN "hatebu" ELSE "agent")
    /\ hatebu_entry' = None
    /\ hatebu_calls' = (IF hatebu_client
                        THEN Append(hatebu_calls, <<idx, ResolvedMainUrl(Current)>>)
                        ELSE hatebu_calls)
    /\ UNCHANGED <<envVars, sendVars, pass_no, rpc, messages, idx, success_count, error_count,
                   skipped_count, result, histVars, raised, splitVars, urlVars>>

\* hatebu_client.fetch_entry returns an entry or None
HatebuReturns(entry, d) ==
    /\ rpc = "pass"
    /\ wpc = "hatebu"
    /\ hatebu_entry' = entry
    /\ hatebu_calls' = hatebu_calls
    /\ elapsed' = Tick(d)
    /\ wpc' = "agent"
    /\ UNCHANGED <<envVars, sendVars, pass_no, rpc, messages, idx, success_count, error_count,
                   skipped_count, result, histVars, raised, splitVars, urlVars>>

\* fetch_entry raises: the inner except Exception goes on with hatebu_entry = None
HatebuRaises(exc, d) ==
    /\ rpc = "pass"
    /\ wpc = "hatebu"
    /\ raised' = <<exc, wpc>>
    /\ IF ExceptExceptionCatches(exc)
       THEN /\ elapsed' = Tick(d)
            /\ wpc' = "agent"
            /\ UNCHANGED <<envVars, sendVars, pass_no, rpc, messages, idx, success_count, error_count,
                           skipped_count, result, histVars, hatebu_entry, hatebu_calls,
                   splitVars, urlVars>>
       ELSE Propagate(exc)

\* fetch_and_summarize(query_func, resolved.main_url, resolved.supplementary_urls,
\* hatebu_entry=hatebu_entry): the function takes query_func, url and
\* supplementary_urls only, so the call raises TypeError before anything is
\* awaited, and except Exception counts the candidate as an error
AgentCallRaises ==
    /\ rpc = "pass"
    /\ wpc = "agent"
    /\ raised' = <<"Exception", wpc>>
    /\ ItemFails(0)

\* await resolve_urls(extracted) raises, or the task is cancelled in it
ItemRaises(exc, d) ==
    /\ rpc = "pass"
    /\ wpc = "resolve"
    /\ raised' = <<exc, wpc>>
    /\ IF ExceptExceptionCatches(exc)
       THEN ItemFails(d)
       ELSE Propagate(exc)

\* await asyncio.sleep(polling_interval) returns: the next pass is called, and
\* nothing of the previous call is left
IntervalReturns ==
    /\ rpc = "sleep"
    /\ rpc' = "pass"
    /\ wpc' = "fetch"
    /\ messages' = <<>>
    /\ idx' = 0
    /\ success_count' = 0
    /\ error_count' = 0
    /\ skipped_count' = 0
    /\ elapsed' = 0
    /\ result' = None
    /\ fate' = <<>>
    /\ durations' = <<>>
    /\ item_start' = 0
    /\ last_post' = None
    /\ raised' = None
    /\ hatebu_entry' = None
    /\ hatebu_calls' = <<>>
    /\ pass_no' = Min(pass_no + 1, MaxPasses)
    /\ UNCHANGED <<envVars, sendVars, splitVars, urlVars>>

\* the task is cancelled while run sleeps: except CancelledError: raise
IntervalCancelled ==
    /\ rpc = "sleep"
    /\ raised' = <<"CancelledError", "interval">>
    /\ Propagate("CancelledError")

Next ==
    \/ FetchReturns
    \/ \E exc \in Exceptions : FetchRaises(exc)
    \/ CheckTimedOut
    \/ SkipItem
    \/ BeginItem
    \/ LoopDone
    \/ \E d \in 0..MaxStep : ResolveReturns(d)
    \/ \E entry \in HatebuEntries, d \in 0..MaxStep : HatebuReturns(entry, d)
    \/ \E exc \in Exceptions, d \in 0..MaxStep : HatebuRaises(exc, d)
    \/ AgentCallRaises
    \/ \E exc \in Exceptions, d \in 0..MaxStep : ItemRaises(exc, d)
    \/ IntervalReturns
    \/ IntervalCancelled

Spec == Init /\ [][Next]_vars

(***************************************************************************)
(* worker.py: send_enriched_messages, and SlackClient.post_thread_reply of *)
(* slack/client.py, each called on its own.                                *)
(*                                                                         *)
(* send_enriched_messages takes its client as an argument.  With the       *)
(* SlackClient of slack/client.py its first post raises TypeError, since   *)
(* post_thread_reply takes no blocks; with a client whose post_thread_reply*)
(* takes blocks it awaits the meta post, a sleep, the summary post, a      *)
(* sleep and the detail post.  A post that returns has added a reply to    *)
(* the thread; a post that raises has added none.                          *)
(***************************************************************************)
PostPositions == {"post_meta", "post_summary", "post_detail"}
SleepPositions == {"sleep_1", "sleep_2"}

\* the part send_enriched_messages posts at a position
PartAt(pos) ==
    CASE pos = "post_meta" -> "meta"
      [] pos = "post_summary" -> "summary"
      [] pos = "post_detail" -> "detail"

\* what follows a position of send_enriched_messages
AfterInSend(pos) ==
    CASE pos = "post_meta" -> "sleep_1"
      [] pos = "sleep_1" -> "post_summary"
      [] pos = "post_summary" -> "sleep_2"
      [] pos = "sleep_2" -> "post_detail"
      [] pos = "post_detail" -> "returned"

\* where an exception that nothing in the call catches leaves it
SendEndsWith(exc) == IF exc = "CancelledError" THEN "cancelled" ELSE "raised"

SendInit ==
    /\ ChunkerIdle
    /\ ResolverIdle
    /\ ExtractorIdle
    /\ SummarizerIdle
    /\ EscaperIdle
    /\ kinds \in UNION {[1..n -> {"url", "nourl"}] : n \in 1..MaxMessages}
    /\ thread \in [1..Len(kinds) -> {<<>>, <<"reply">>}]
    /\ mode = "call"
    /\ timeout = NoTimeout
    /\ hatebu_client = FALSE
    /\ message_limit \in 1..MaxMessages
    /\ post_rejected \in 0..Len(kinds)
    /\ rpc = "idle"
    /\ wpc = "idle"
    /\ messages = <<>>
    /\ idx = 0
    /\ success_count = 0
    /\ error_count = 0
    /\ skipped_count = 0
    /\ elapsed = 0
    /\ result = None
    /\ fate = <<>>
    /\ durations = <<>>
    /\ item_start = 0
    /\ last_post = None
    /\ raised = None
    /\ hatebu_entry = None
    /\ hatebu_calls = <<>>
    /\ pass_no = 0
    /\ \/ /\ send_call = "send_enriched_messages"
          /\ send_client \in {"SlackClient", "accepts_blocks"}
          /\ send_pc = "post_meta"
       \/ /\ send_call = "post_thread_reply"
          /\ send_client = "SlackClient"
          /\ send_pc = "post"
    /\ send_ts \in 1..Len(kinds)
    /\ send_posted = <<>>
    /\ send_events = <<>>

\* what no step of the two calls touches
SendFrame ==
    UNCHANGED <<kinds, mode, timeout, hatebu_client, message_limit, post_rejected,
                passVars, fate, durations, item_start, hatebu_entry, hatebu_calls,
                pass_no, send_call, send_client, send_ts, splitVars, urlVars>>

\* slack_client.post_thread_reply(..., blocks=...) on the SlackClient of
\* slack/client.py: the method takes channel_id, thread_ts and text only, so
\* the call raises TypeError before anything is awaited
PostKeywordRaises ==
    /\ send_call = "send_enriched_messages"
    /\ send_client = "SlackClient"
    /\ send_pc = "post_meta"
    /\ send_pc' = "raised"
    /\ raised' = <<"Exception", send_pc>>
    /\ UNCHANGED <<thread, last_post, send_posted, send_events>>
    /\ SendFrame

\* a post of send_enriched_messages returns the ts of the reply, which is now
\* in the thread
PostReturns ==
    /\ send_call = "send_enriched_messages"
    /\ send_client = "accepts_blocks"
    /\ send_pc \in PostPositions
    /\ post_rejected # send_ts
    /\ thread' = [thread EXCEPT ![send_ts] = Append(@, PartAt(send_pc))]
    /\ last_post' = <<send_ts, PartAt(send_pc)>>
    /\ send_posted' = Append(send_posted, PartAt(send_pc))
    /\ send_events' = Append(send_events, <<"post", send_ts, PartAt(send_pc)>>)
    /\ send_pc' = AfterInSend(send_pc)
    /\ UNCHANGED raised
    /\ SendFrame

\* a post of send_enriched_messages raises, or the task is cancelled in it:
\* nothing is caught, the later posts are not made and the replies posted stay
PostRaises(exc) ==
    /\ send_call = "send_enriched_messages"
    /\ send_client = "accepts_blocks"
    /\ send_pc \in PostPositions
    /\ send_pc' = SendEndsWith(exc)
    /\ raised' = <<exc, send_pc>>
    /\ last_post' = <<send_ts, PartAt(send_pc)>>
    /\ send_events' = Append(send_events, <<"post", send_ts, PartAt(send_pc)>>)
    /\ UNCHANGED <<thread, send_posted>>
    /\ SendFrame

\* await asyncio.sleep(1.0) between two posts returns
DelayReturns ==
    /\ send_call = "send_enriched_messages"
    /\ send_pc \in SleepPositions
    /\ send_pc' = AfterInSend(send_pc)
    /\ send_events' = Append(send_events, <<"sleep", PostDelay>>)
    /\ UNCHANGED <<thread, last_post, raised, send_posted>>
    /\ SendFrame

\* the task is cancelled in the sleep between two posts
DelayCancelled ==
    /\ send_call = "send_enriched_messages"
    /\ send_pc \in SleepPositions
    /\ send_pc' = "cancelled"
    /\ raised' = <<"CancelledError", send_pc>>
    /\ UNCHANGED <<thread, last_post, send_posted, send_events>>
    /\ SendFrame

\* SlackClient.post_thread_reply(channel_id, thread_ts, text): chat_postMessage
\* answers ok and the method returns response["ts"]; the reply is in the thread
PostThreadReplyReturns ==
    /\ send_call = "post_thread_reply"
    /\ send_pc = "post"
    /\ post_rejected # send_ts
    /\ thread' = [thread EXCEPT ![send_ts] = Append(@, "text")]
    /\ last_post' = <<send_ts, "text">>
    /\ send_posted' = Append(send_posted, "text")
    /\ send_events' = Append(send_events, <<"post", send_ts, "text">>)
    /\ send_pc' = "returned"
    /\ UNCHANGED raised
    /\ SendFrame

\* chat_postMessage raises or answers without ok (SlackAPIError), or the task is
\* cancelled in it: no reply is added
PostThreadReplyRaises(exc) ==
    /\ send_call = "post_thread_reply"
    /\ send_pc = "post"
    /\ send_pc' = SendEndsWith(exc)
    /\ raised' = <<exc, send_pc>>
    /\ last_post' = <<send_ts, "text">>
    /\ send_events' = Append(send_events, <<"post", send_ts, "text">>)
    /\ UNCHANGED <<thread, send_posted>>
    /\ SendFrame

SendNext ==
    \/ PostKeywordRaises
    \/ PostReturns
    \/ \E exc \in Exceptions : PostRaises(exc)
    \/ DelayReturns
    \/ DelayCancelled
    \/ PostThreadReplyReturns
    \/ \E exc \in Exceptions : PostThreadReplyRaises(exc)

SendSpec == SendInit /\ [][SendNext]_vars

\* send_enriched_messages called on its own: the events of the call are an
\* initial segment of post meta, sleep, post summary, sleep, post detail, all
\* posts to the thread of the call; the replies it added to that thread are
\* the parts whose post returned, in order; every other thread is as it was;
\* and it returns only with all three posted
SendOrder ==
    send_call = "send_enriched_messages" =>
        /\ IsPrefix(send_events,
                    << <<"post", send_ts, "meta">>, <<"sleep", PostDelay>>,
                       <<"post", send_ts, "summary">>, <<"sleep", PostDelay>>,
                       <<"post", send_ts, "detail">> >>)
        /\ IsPrefix(send_posted, <<"meta", "summary", "detail">>)
        /\ Len(thread[send_ts]) >= Len(send_posted)
        /\ SubSeq(thread[send_ts], Len(thread[send_ts]) - Len(send_posted) + 1,
                  Len(thread[send_ts])) = send_posted
        /\ send_pc = "returned" => send_posted = <<"meta", "summary", "detail">>
        /\ send_client = "SlackClient" => send_posted = <<>>

\* post_thread_reply called on its own has returned: the message has a reply
\* and fetch_unreplied_messages does not return it any more
PostedIsReplied ==
    (send_call = "post_thread_reply" /\ send_pc = "returned") =>
        /\ thread[send_ts] # <<>>
        /\ \A k \in 1..Len(FetchUnrepliedMessages(message_limit)) :
              FetchUnrepliedMessages(message_limit)[k] # send_ts

(***************************************************************************)
(* Properties of _split_mrkdwn_text (checked under SplitSpec).             *)
(***************************************************************************)
\* text.count of the fence marker: occurrences counted left to right, not overlapping
RECURSIVE CountFencesFrom(_, _)
CountFencesFrom(s, pos) ==
    LET at == Find(s, Fence, pos)
    IN  IF at = -1 THEN 0 ELSE 1 + CountFencesFrom(s, at + 3)

CountFences(s) == CountFencesFrom(s, 0)

\* every fence of s is terminated
FencesTerminated(s) == CountFences(s) % 2 = 0

\* C1: every chunk returned by _split_mrkdwn_text(text, L) has length <= L,
\* injected fence markers included, also when a link token is longer than L.
C1_ChunkWithinLimit ==
    \A i \in 1..Len(chunks) : Len(chunks[i]) <= MaxLength

\* chunk i with the injected reopen markers removed (and nothing else)
WithoutReopen(i) ==
    IF cuts[i].reopen THEN SliceFrom(chunks[i], FenceLen) ELSE chunks[i]

RECURSIVE ConcatWithoutReopen(_)
ConcatWithoutReopen(i) ==
    IF i > Len(chunks) THEN <<>> ELSE WithoutReopen(i) \o ConcatWithoutReopen(i + 1)

\* C2 (as stated): the chunks, concatenated in order after removing the injected
\* fence-reopen markers, are exactly the input text.
C2_ConcatEqualsText ==
    spc = "returned" => ConcatWithoutReopen(1) = text

\* the injected markers of chunk i are where the cut record says they are
MarkersInPlace(i) ==
    /\ cuts[i].reopen => MatchesAt(chunks[i], ReopenMarker, 0)
    /\ cuts[i].close => MatchesAt(chunks[i], CloseMarker, Len(chunks[i]) - FenceLen)
    /\ Len(chunks[i]) >= (IF cuts[i].reopen THEN FenceLen ELSE 0)
                          + (IF cuts[i].close THEN FenceLen ELSE 0)

\* chunk i without its injected reopen and closing markers
Core(i) ==
    Slice(chunks[i],
          IF cuts[i].reopen THEN FenceLen ELSE 0,
          Len(chunks[i]) - (IF cuts[i].close THEN FenceLen ELSE 0))

\* the input characters chunk i stands for: its core, and the newline a newline cut consumed
Consumed(i) ==
    Core(i) \o (IF cuts[i].kind = "newline" THEN <<NL>> ELSE <<>>)

RECURSIVE Rebuilt(_)
Rebuilt(i) ==
    IF i > Len(chunks) THEN <<>> ELSE Consumed(i) \o Rebuilt(i + 1)

\* C2 (amended): the chunks, concatenated in order after removing the injected
\* reopen and closing fence markers and putting back the one newline that each
\* newline cut consumed, are exactly the input text; while the loop runs, the
\* same holds of the chunks so far followed by the remaining text.
C2_RebuildEqualsText ==
    /\ Len(cuts) = Len(chunks)
    /\ \A i \in 1..Len(chunks) : MarkersInPlace(i)
    /\ spc = "loop" => Rebuilt(1) \o remaining = text
    /\ spc = "returned" => Rebuilt(1) = text

\* C2 witness: a finished split that made a newline cut and then a forced cut
C2_Witness ==
    /\ spc = "returned"
    /\ \E i \in 1..Len(cuts) : cuts[i].kind = "newline"
    /\ \E i \in 1..Len(cuts) : cuts[i].kind = "forced"

\* C3: for a text whose fences are all terminated, every chunk holds an even
\* number of fence markers.
C3_EvenFencesPerChunk ==
    FencesTerminated(text) =>
        \A i \in 1..Len(chunks) : CountFences(chunks[i]) % 2 = 0

(***************************************************************************)
(* Properties of enrich_and_reply_pending_messages and run (checked under  *)
(* Spec).                                                                  *)
(***************************************************************************)
\* the number of candidates iterated so far that ended with outcome o
Outcomes(o) == Cardinality({k \in 1..Len(fate) : fate[k][1] = o})

\* the pass of this call has returned a result
Returned == result # None

\* C4: every result returned by a pass has processed_count = success_count +
\* error_count + skipped_count, timed out or not: every iterated candidate
\* has incremented exactly one of the three counters, once.
C4_CountersPartitionProcessed ==
    Returned =>
        LET r == result[1]
        IN  /\ r.processed_count = r.success_count + r.error_count + r.skipped_count
            /\ Len(fate) = r.processed_count
            /\ r.success_count = Outcomes("success")
            /\ r.error_count = Outcomes("error")
            /\ r.skipped_count = Outcomes("skipped")

\* a pass that did not time out returned with two candidates counted as
\* errors and one skipped
C4_Witness ==
    /\ Returned
    /\ ~result[1].timed_out
    /\ result[1].success_count = 0
    /\ result[1].error_count = 2
    /\ result[1].skipped_count = 1
    /\ result[1].processed_count = 3

\* C5: every result returned by a pass has processed_count + remaining_count
\* = the number of fetched candidates.  Without a timeout processed_count is
\* the batch size and remaining_count is 0; with a timeout processed_count is
\* the index of the candidate before which the budget was found exhausted,
\* and the pass has returned that result rather than raised.
C5_ProcessedPlusRemaining ==
    Returned =>
        LET r == result[1]
        IN  /\ r.processed_count + r.remaining_count = Len(messages)
            /\ (~r.timed_out) =>
                   (r.processed_count = Len(messages) /\ r.remaining_count = 0)
            /\ r.timed_out =>
                   /\ r.processed_count = idx
                   /\ idx < Len(messages)
                   /\ BudgetExhausted(timeout, elapsed)
            /\ rpc \in {"sleep", "returned", "cancelled"}
            /\ raised = None \/ raised[2] = "interval" \/ ExceptExceptionCatches(raised[1])

\* a pass timed out before its third candidate and returned 2 processed, 1 remaining
C5_Witness ==
    /\ Returned
    /\ result[1].timed_out
    /\ result[1].processed_count = 2
    /\ result[1].remaining_count = 1
    /\ rpc = "sleep"

\* the replies send_enriched_messages posts to the thread of a candidate
AllParts == <<"meta", "summary", "detail">>

\* the candidate at idx is at the call of fetch_and_summarize
AtAgentCall == rpc = "pass" /\ wpc = "agent"

\* the step leaves the three counters and the loop index alone
CountersKept ==
    /\ idx' = idx
    /\ success_count' = success_count
    /\ error_count' = error_count
    /\ skipped_count' = skipped_count
    /\ fate' = fate

\* candidate k of the pass has a URL, its URL resolution returned, and Slack
\* accepts replies to its thread
Answered(k) ==
    /\ kinds[messages[k]] = "url"
    /\ fate[k][2] # "resolve"
    /\ post_rejected # messages[k]

\* the scenario of C6: a direct call has been through a batch of three
\* candidates with a URL whose URL resolution returned, and Slack rejects the
\* replies to the second and to no other
SecondOfThreeFailsInPost ==
    /\ Returned
    /\ timeout = NoTimeout
    /\ Len(messages) = 3
    /\ Len(fate) = 3
    /\ post_rejected = messages[2]
    /\ \A k \in 1..3 : kinds[messages[k]] = "url" /\ fate[k][2] # "resolve"

\* C6: a step taken at the agent call of a candidate either goes on with the
\* candidate and counts nothing, or is the failure of the call, and then
\* error_count grows by exactly one, the other counters stay, no exception
\* leaves the pass and the loop is at the boundary before the next candidate.
\* A batch of three whose second candidate fails in a post returns
\* (3, 2, 1, 0).
C6_FailureStaysInCandidate ==
    /\ [][AtAgentCall =>
            \/ /\ rpc' = "pass"
               /\ wpc' # "check"
               /\ CountersKept
            \/ /\ rpc' = "pass"
               /\ wpc' = "check"
               /\ idx' = idx + 1
               /\ error_count' = error_count + 1
               /\ success_count' = success_count
               /\ skipped_count' = skipped_count
               /\ fate' = Append(fate, <<"error", wpc>>)
               /\ thread' = thread]_vars
    /\ [](SecondOfThreeFailsInPost =>
            result[1] = EnrichAndReplyResult(3, 2, 1, 0, FALSE, 0))

\* the scenario of C7: a positive budget, and a first candidate that went
\* through its pipeline and took longer than the budget
SlowFirstCandidate ==
    /\ Returned
    /\ timeout > 0
    /\ Len(durations) >= 1
    /\ durations[1] > timeout

\* C7: a pass returns only from the boundary before a candidate or after the
\* last one, never while a candidate is in flight, so every candidate begun
\* has ended in success, error or skip.  With a positive budget and n >= 1
\* candidates that each take longer than the budget, of which the first is
\* answered by its collaborators, the pass returns success_count = 1,
\* processed_count = 1, remaining_count = n - 1, timed_out = True.
C7_FirstOnlyForAnyBatch ==
    /\ [][(result' # result /\ result' # None) => (rpc = "pass" /\ wpc = "check")]_vars
    /\ [](Returned => Len(fate) = idx /\ Len(durations) = idx)
    /\ []((SlowFirstCandidate /\ Answered(1)) =>
            result[1] = EnrichAndReplyResult(1, 1, 0, 0, TRUE, Len(messages) - 1))

\* C8: whatever happens inside a pass, nothing other than the cancellation
\* of the task ends the polling loop of run.
C8_OnlyCancellationEndsRun == mode = "run" => rpc # "crashed"

\* the step delivers a cancellation at an await
CancellationDelivered == raised' # None /\ raised'[1] = "CancelledError"

\* C9: a cancellation delivered at any await of run or of a pass leaves run
\* as a cancellation: the step that delivers it counts no error, ends no
\* candidate and posts nothing, and no step of run follows it.
C9_CancellationPropagates ==
    [][/\ rpc # "cancelled"
       /\ CancellationDelivered =>
              /\ rpc' = "cancelled"
              /\ error_count' = error_count
              /\ success_count' = success_count
              /\ skipped_count' = skipped_count
              /\ idx' = idx
              /\ fate' = fate
              /\ thread' = thread
              /\ result' = result]_vars

\* run was cancelled in the bookmark lookup of a candidate that is neither
\* the first nor the last of its batch, after an earlier failure
C9_Witness ==
    /\ rpc = "cancelled"
    /\ raised = <<"CancelledError", "hatebu">>
    /\ idx >= 1
    /\ idx + 1 < Len(messages)
    /\ error_count = 1
    /\ Len(fate) = idx

RECURSIVE ChunkEnd(_)
ChunkEnd(i) == IF i = 0 THEN 0 ELSE ChunkEnd(i - 1) + Len(Consumed(i))

\* the boundaries between two consecutive chunks made so far
Boundaries ==
    {ChunkEnd(i) : i \in 1..(IF spc = "returned" THEN Len(chunks) - 1 ELSE Len(chunks))}

\* an entity occurs in s at position e
EntityAt(s, e) == \E k \in 1..Len(Entities) : MatchesAt(s, Entities[k], e)

\* the end of the entity that occurs in s at position e
EntityEnd(s, e) ==
    e + Len(Entities[CHOOSE k \in 1..Len(Entities) : MatchesAt(s, Entities[k], e)])

\* C11: no boundary between two consecutive chunks falls strictly inside an
\* occurrence of one of the three entities in the input text: every entity
\* occurrence lies within one chunk.
C11_EntityInOneChunk ==
    \A b \in Boundaries :
        \A e \in 0..(Len(text) - 1) :
            EntityAt(text, e) => ~(e < b /\ b < EntityEnd(text, e))

\* a forced cut that was moved back to the start of an entity: the chunk is
\* shorter than the forced length and the rest begins with the entity
C11_Witness ==
    /\ spc = "returned"
    /\ \E i \in 1..(Len(chunks) - 1) :
          /\ cuts[i].kind = "forced"
          /\ EntityAt(text, ChunkEnd(i))
          /\ \E back \in 1..4 :
                /\ Len(Core(i)) + back
                     = MaxLength - (IF cuts[i].reopen THEN FenceLen ELSE 0)
                                 - (IF cuts[i].close THEN FenceLen ELSE 0)
                /\ ChunkEnd(i) + back < EntityEnd(text, ChunkEnd(i))

\* a link token <...> occupies [a, e) of s: it opens at a, closes at e - 1 and
\* holds no other angle bracket
LinkToken(s, a, e) ==
    /\ 0 <= a
    /\ a + 1 < e
    /\ e <= Len(s)
    /\ s[a + 1] = "<"
    /\ s[e] = ">"
    /\ \A j \in (a + 2)..(e - 1) : s[j] # "<" /\ s[j] # ">"

\* C12: no boundary between two consecutive chunks falls strictly inside a
\* link token of the input text that lies outside code.
C12_LinkInOneChunk ==
    \A b \in Boundaries :
        \A a \in 0..(Len(text) - 1), e \in 1..Len(text) :
            (LinkToken(text, a, e) /\ ~IsInsideCodeBlock(a, FindCodeBlockRanges(text)))
                => ~(a < b /\ b < e)

(***************************************************************************)
(* Further properties of enrich_and_reply_pending_messages (checked under  *)
(* Spec).                                                                  *)
(***************************************************************************)
\* the loop is at a candidate whose text yields no primary URL, with budget left
AtCandidateWithoutUrl ==
    /\ rpc = "pass"
    /\ wpc = "check"
    /\ idx < Len(messages)
    /\ ~BudgetExhausted(timeout, elapsed)
    /\ kinds[Current] = "nourl"

\* C13: the step taken at a candidate without a primary URL adds one to
\* skipped_count and nothing else: it goes straight to the boundary before
\* the next candidate, so the redirect decoder, the bookmark service and the
\* agent are not awaited, no reply is posted and no thread changes.  The
\* thread of every skipped candidate stays empty.
C13_SkippedTouchesNothing ==
    /\ [][AtCandidateWithoutUrl =>
            /\ rpc' = "pass"
            /\ wpc' = "check"
            /\ idx' = idx + 1
            /\ skipped_count' = skipped_count + 1
            /\ success_count' = success_count
            /\ error_count' = error_count
            /\ thread' = thread
            /\ last_post' = last_post
            /\ raised' = raised
            /\ hatebu_entry' = hatebu_entry
            /\ elapsed' = elapsed
            /\ fate' = Append(fate, <<"skipped", "check">>)]_vars
    /\ [](\A k \in 1..Len(fate) :
            fate[k][1] = "skipped" =>
                /\ kinds[messages[k]] = "nourl"
                /\ thread[ThreadOf(messages[k])] = <<>>)

\* a candidate without a URL was skipped between two that went through the
\* pipeline
C13_Witness ==
    /\ Returned
    /\ Len(fate) = 3
    /\ fate[1][1] = "error"
    /\ fate[2] = <<"skipped", "check">>
    /\ fate[3][1] = "error"
    /\ thread[ThreadOf(messages[2])] = <<>>
    /\ result[1].skipped_count = 1

\* the bookmark lookup of the candidate in flight has raised
LookupRaised == raised = <<"Exception", "hatebu">>

\* C14: when fetch_entry raises for a candidate, the step goes on to the agent
\* call with hatebu_entry = None and counts nothing; no candidate ends at the
\* lookup; and the agent call that follows, for a candidate whose replies
\* Slack accepts, does not count the candidate as an error.
C14_LookupFailureIsNotAnError ==
    /\ [][(rpc = "pass" /\ wpc = "hatebu" /\ raised' = <<"Exception", "hatebu">>) =>
            /\ rpc' = "pass"
            /\ wpc' = "agent"
            /\ hatebu_entry' = None
            /\ CountersKept
            /\ thread' = thread]_vars
    /\ [](\A k \in 1..Len(fate) : fate[k][2] # "hatebu")
    /\ []((AtAgentCall /\ LookupRaised) => hatebu_entry = None)
    /\ [][(AtAgentCall /\ LookupRaised /\ post_rejected # Current) =>
            /\ error_count' = error_count
            /\ \A k \in 1..Len(fate') : fate'[k][1] # "error" \/ k <= Len(fate)]_vars

(***************************************************************************)
(* slack/url_resolver.py: is_google_news_url, resolve_url, resolve_urls.   *)
(*                                                                         *)
(* A URL is <<netloc, directory, leaf>>: urlparse gives its hostname and   *)
(* its path, and raises ValueError on a netloc with an unmatched bracket.  *)
(***************************************************************************)
\* resolve_urls is called with at most MaxSupplementary supplementary URLs
MaxSupplementary == 2

EmptyUrl == <<"", "", "">>

GoogleNewsHost == "news.google.com"

ArticlesDir == "/rss/articles/"

Urls ==
    {<<n, d[1], d[2]>> :
        n \in {GoogleNewsHost, "example.com"},
        d \in {<<ArticlesDir, "A">>, <<ArticlesDir, "B">>, <<"/topics/", "T">>}}
    \cup {<<"[x", ArticlesDir, "A">>, EmptyUrl}

\* urlparse(url) raises ValueError: Invalid IPv6 URL
UrlparseRaises(url) == url[1] = "[x"

\* if not url: return False; parsed.hostname == "news.google.com" and
\* "/rss/articles/" in parsed.path
IsGoogleNewsUrl(url) ==
    IF url = EmptyUrl
    THEN FALSE
    ELSE url[1] = GoogleNewsHost /\ url[2] = ArticlesDir

\* what new_decoderv1 can do within asyncio.wait_for: return a dict, take
\* longer than the timeout, or raise
DecoderOutcomes ==
    {[kind |-> "result", status |-> st, decoded_url |-> d] :
        st \in BOOLEAN,
        d \in {EmptyUrl, <<"example.com", ArticlesDir, "A">>,
               <<"example.com", "/topics/", "T">>, <<GoogleNewsHost, ArticlesDir, "B">>}}
    \cup {[kind |-> k, status |-> FALSE, decoded_url |-> EmptyUrl] :
            k \in {"timeout", "exception"}}

\* the value resolve_url returns for a URL that urlparse accepts
ResolveUrl(url, outcome) ==
    IF ~IsGoogleNewsUrl(url)
    THEN url
    ELSE IF outcome.kind = "result" /\ outcome.status /\ outcome.decoded_url # EmptyUrl
         THEN outcome.decoded_url
         ELSE url

ExtractedUrls(main_url, supplementary_urls) ==
    [main_url |-> main_url, supplementary_urls |-> supplementary_urls]

\* the deduplication loop of resolve_urls over list[k..], with the set seen so far
RECURSIVE UniqueFrom(_, _, _)
UniqueFrom(list, k, seen) ==
    IF k > Len(list)
    THEN <<>>
    ELSE IF list[k] \in seen
         THEN UniqueFrom(list, k + 1, seen)
         ELSE <<list[k]>> \o UniqueFrom(list, k + 1, seen \cup {list[k]})

\* a deduplication that forgets to seed seen with the resolved main URL
UniqueSupplementaryUnseeded(main, list) == UniqueFrom(list, 1, {})

\* seen = {resolved_main}; unique_supplementary
UniqueSupplementary(main, list) == UniqueFrom(list, 1, {main})

\* the URL resolve_url is called for at url_index
CurrentUrl ==
    IF url_index = 0
    THEN extracted.main_url
    ELSE extracted.supplementary_urls[url_index]

ResolveInit ==
    /\ ChunkerIdle
    /\ WorkerIdle
    /\ ExtractorIdle
    /\ SummarizerIdle
    /\ EscaperIdle
    /\ extracted \in
          {ExtractedUrls(m, ss) :
              m \in {None} \cup Urls,
              ss \in UNION {[1..n -> Urls] : n \in 0..MaxSupplementary}}
    /\ upc = "entry"
    /\ url_index = 0
    /\ resolved_main = None
    /\ resolved_supplementary = <<>>
    /\ resolved = None
    /\ resolver_calls = <<>>
    /\ decoder_calls = <<>>
    /\ decoder_started = FALSE

\* resolve_url returned res for the URL at url_index: the result is stored; after
\* the last URL the supplementary list is deduplicated and resolve_urls returns
StoreResolved(res) ==
    LET main == IF url_index = 0 THEN res ELSE resolved_main
        supp == IF url_index = 0
                THEN resolved_supplementary
                ELSE Append(resolved_supplementary, res)
    IN  /\ resolved_main' = main
        /\ resolved_supplementary' = supp
        /\ IF url_index = Len(extracted.supplementary_urls)
           THEN /\ resolved' = <<ExtractedUrls(main, UniqueSupplementary(main, supp))>>
                /\ upc' = "returned"
                /\ url_index' = url_index
           ELSE /\ resolved' = resolved
                /\ upc' = "loop"
                /\ url_index' = url_index + 1

\* if extracted.main_url is None: return extracted
ResolveUrlsNone ==
    /\ upc = "entry"
    /\ extracted.main_url = None
    /\ resolved' = <<extracted>>
    /\ upc' = "returned"
    /\ UNCHANGED <<extracted, url_index, resolved_main, resolved_supplementary,
                   resolver_calls, decoder_calls, decoder_started, splitVars, workerVars, extractVars, fetchVars, escapeVars>>

\* a resolve_urls that passes over main_url and starts with the supplementary URLs
ResolveUrlsEnterPastMain ==
    /\ upc = "entry"
    /\ extracted.main_url # None
    /\ upc' = "loop"
    /\ url_index' = Min(1, Len(extracted.supplementary_urls))
    /\ UNCHANGED <<extracted, resolved_main, resolved_supplementary, resolved,
                   resolver_calls, decoder_calls, decoder_started, splitVars, workerVars, extractVars, fetchVars, escapeVars>>

\* main_url is not None: resolve_url is called for it first
ResolveUrlsEnter ==
    /\ upc = "entry"
    /\ extracted.main_url # None
    /\ upc' = "loop"
    /\ url_index' = 0
    /\ UNCHANGED <<extracted, resolved_main, resolved_supplementary, resolved,
                   resolver_calls, decoder_calls, decoder_started, splitVars, workerVars, extractVars, fetchVars, escapeVars>>

\* resolve_url on a URL that is not a redirect URL: return url
ResolveUrlIneligible ==
    /\ upc = "loop"
    /\ ~UrlparseRaises(CurrentUrl)
    /\ ~IsGoogleNewsUrl(CurrentUrl)
    /\ resolver_calls' = Append(resolver_calls, url_index)
    /\ \E outcome \in DecoderOutcomes : StoreResolved(ResolveUrl(CurrentUrl, outcome))
    /\ UNCHANGED <<extracted, decoder_calls, decoder_started, splitVars, workerVars, extractVars, fetchVars, escapeVars>>

\* resolve_url on a URL that urlparse rejects: is_google_news_url is called
\* outside the try, the ValueError leaves resolve_url and resolve_urls
ResolveUrlParseRaises ==
    /\ upc = "loop"
    /\ UrlparseRaises(CurrentUrl)
    /\ resolver_calls' = Append(resolver_calls, url_index)
    /\ upc' = "raised"
    /\ UNCHANGED <<extracted, url_index, resolved_main, resolved_supplementary, resolved,
                   decoder_calls, decoder_started, splitVars, workerVars, extractVars, fetchVars, escapeVars>>

\* resolve_url on a redirect URL: asyncio.to_thread queues new_decoderv1 for a
\* worker thread and resolve_url suspends at the await of asyncio.wait_for;
\* the decoder has not been invoked yet
ResolveUrlAwaitsDecoder ==
    /\ upc = "loop"
    /\ ~UrlparseRaises(CurrentUrl)
    /\ IsGoogleNewsUrl(CurrentUrl)
    /\ resolver_calls' = Append(resolver_calls, url_index)
    /\ decoder_started' = FALSE
    /\ upc' = "decoding"
    /\ UNCHANGED <<extracted, url_index, resolved_main, resolved_supplementary, resolved,
                   decoder_calls, splitVars, workerVars, extractVars, fetchVars, escapeVars>>

\* a worker thread takes up the queued call: new_decoderv1(url) is invoked
\* while resolve_url is suspended
DecoderStarts ==
    /\ upc = "decoding"
    /\ ~decoder_started
    /\ decoder_calls' = Append(decoder_calls, CurrentUrl)
    /\ decoder_started' = TRUE
    /\ UNCHANGED <<extracted, upc, url_index, resolved_main, resolved_supplementary,
                   resolved, resolver_calls,
                   splitVars, workerVars, extractVars, fetchVars, escapeVars>>

\* the outcomes the await can end with: an answer or an exception of the
\* decoder needs the decoder to have been invoked, the timeout of
\* asyncio.wait_for does not (no thread took the call up in time)
OutcomePossible(outcome) == decoder_started \/ outcome.kind = "timeout"

\* the await ends with the decoder's answer, the timeout or an exception:
\* resolve_url returns the decoded URL or the URL it was given
ResolveUrlDecodes(outcome) ==
    /\ upc = "decoding"
    /\ OutcomePossible(outcome)
    /\ StoreResolved(ResolveUrl(CurrentUrl, outcome))
    /\ decoder_started' = FALSE
    /\ UNCHANGED <<extracted, resolver_calls, decoder_calls,
                   splitVars, workerVars, extractVars, fetchVars, escapeVars>>

\* the task is cancelled while resolve_url is suspended, before or after the
\* decoder was invoked: CancelledError is not an Exception
ResolveUrlCancelled ==
    /\ upc = "decoding"
    /\ upc' = "cancelled"
    /\ UNCHANGED <<extracted, url_index, resolved_main, resolved_supplementary, resolved,
                   resolver_calls, decoder_calls, decoder_started,
                   splitVars, workerVars, extractVars, fetchVars, escapeVars>>

ResolveNext ==
    \/ ResolveUrlsNone
    \/ ResolveUrlsEnter
    \/ ResolveUrlIneligible
    \/ ResolveUrlParseRaises
    \/ ResolveUrlAwaitsDecoder
    \/ DecoderStarts
    \/ \E outcome \in DecoderOutcomes : ResolveUrlDecodes(outcome)
    \/ ResolveUrlCancelled

ResolveSpec == ResolveInit /\ [][ResolveNext]_vars

(***************************************************************************)
(* Properties of resolve_url and resolve_urls (checked under ResolveSpec). *)
(***************************************************************************)
\* C15: resolve_url never raises: neither resolve_url nor, through it,
\* resolve_urls ends with an exception.
C15_ResolveUrlNeverRaises == upc # "raised"

\* the positions of the resolved supplementary URLs that are kept: not the
\* resolved main URL, and not seen at an earlier position
KeptPositions ==
    {k \in 1..Len(resolved_supplementary) :
        /\ resolved_supplementary[k] # resolved_main
        /\ \A j \in 1..(k - 1) : resolved_supplementary[j] # resolved_supplementary[k]}

\* the i-th kept position, in list order
KeptPosition(i) ==
    CHOOSE k \in KeptPositions : Cardinality({j \in KeptPositions : j <= k}) = i

\* C16: when resolve_urls returns for an argument with a main URL, the result
\* has a main URL, its supplementary list has no entry twice and does not
\* hold the resolved main URL, and its entries are the first occurrences of
\* the resolved supplementary URLs in their original order.
C16_ResolvedDeduplicated ==
    (upc = "returned" /\ extracted.main_url # None) =>
        LET r == resolved[1]
            supp == r.supplementary_urls
        IN  /\ r.main_url # None
            /\ r.main_url = resolved_main
            /\ Len(resolved_supplementary) = Len(extracted.supplementary_urls)
            /\ \A i, j \in 1..Len(supp) : i # j => supp[i] # supp[j]
            /\ \A i \in 1..Len(supp) : supp[i] # r.main_url
            /\ Len(supp) = Cardinality(KeptPositions)
            /\ \A i \in 1..Len(supp) : supp[i] = resolved_supplementary[KeptPosition(i)]

\* two different redirect URLs were decoded to one destination, which is not
\* the resolved main URL: one entry is kept
C16_Witness ==
    /\ upc = "returned"
    /\ Len(decoder_calls) = 3
    /\ decoder_calls[2] # decoder_calls[3]
    /\ resolved_supplementary[1] = resolved_supplementary[2]
    /\ resolved_main # resolved_supplementary[1]
    /\ resolved[1].supplementary_urls = <<resolved_supplementary[1]>>

\* the redirect URLs among the URLs at list positions 0..n - 1, in list order
RECURSIVE EligibleUpTo(_)
EligibleUpTo(n) ==
    IF n = 0
    THEN <<>>
    ELSE LET url == IF n = 1
                    THEN extracted.main_url
                    ELSE extracted.supplementary_urls[n - 1]
         IN  EligibleUpTo(n - 1)
                \o (IF ~UrlparseRaises(url) /\ IsGoogleNewsUrl(url) THEN <<url>> ELSE <<>>)

\* the number of resolve_url calls that have returned
ResolverReturns ==
    (IF resolved_main = None THEN 0 ELSE 1) + Len(resolved_supplementary)

\* a[i..] can be read off b[j..] by leaving entries out
RECURSIVE IsSubsequenceFrom(_, _, _, _)
IsSubsequenceFrom(a, i, b, j) ==
    IF i > Len(a) THEN TRUE
    ELSE IF j > Len(b) THEN FALSE
    ELSE IF a[i] = b[j] THEN IsSubsequenceFrom(a, i + 1, b, j + 1)
    ELSE IsSubsequenceFrom(a, i, b, j + 1)

\* C17: resolve_url is called for list position 0 (the main URL) first and
\* then for the supplementary positions 1, 2, ... in order, once each, and a
\* call is made only when every earlier call has returned, so at most one
\* call is outstanding; the decoder is invoked only for redirect URLs among
\* the calls made, at most once per call and in their order, and while it has
\* been taken up by a thread it is for the call that is outstanding.  When
\* main_url is None no call is made and the argument is returned as it is.
C17_ResolverCalledInOrder ==
    /\ \A i \in 1..Len(resolver_calls) : resolver_calls[i] = i - 1
    /\ Len(resolver_calls) <= 1 + Len(extracted.supplementary_urls)
    /\ Len(resolver_calls)
         = ResolverReturns
             + (IF upc \in {"decoding", "raised", "cancelled"} THEN 1 ELSE 0)
    /\ decoder_started =>
           /\ upc \in {"decoding", "cancelled"}
           /\ decoder_calls # <<>>
           /\ decoder_calls[Len(decoder_calls)] = CurrentUrl
    /\ IsSubsequenceFrom(decoder_calls, 1, EligibleUpTo(Len(resolver_calls)), 1)
    /\ (upc = "returned" /\ extracted.main_url # None) =>
           Len(resolver_calls) = 1 + Len(extracted.supplementary_urls)
    /\ extracted.main_url = None =>
           /\ resolver_calls = <<>>
           /\ decoder_calls = <<>>
           /\ upc = "returned" => resolved = <<extracted>>

\* resolve_urls returned after three calls in order, the second of them for a
\* URL that is no redirect URL
C17_Witness ==
    /\ upc = "returned"
    /\ resolver_calls = <<0, 1, 2>>
    /\ decoder_calls = <<extracted.main_url, extracted.supplementary_urls[2]>>

(***************************************************************************)
(* slack/url_extractor.py: extract_urls.  The text is a sequence of        *)
(* characters; a URL is the character sequence a pattern matched.          *)
(***************************************************************************)
\* the message text is a concatenation of at most MaxTextTokens tokens
MaxTextTokens == 5

SchemeHttp == <<"h", "t", "t", "p", ":", "/", "/">>

SchemeHttps == <<"h", "t", "t", "p", "s", ":", "/", "/">>

TextTokens ==
    << SchemeHttp \o <<"a">>,
       SchemeHttp \o <<"b">>,
       SchemeHttps \o <<"a">>,
       <<"<">>,
       <<">">>,
       <<"|">>,
       <<" ">>,
       <<"a">> >>

RECURSIVE FlattenText(_, _)
FlattenText(ts, k) ==
    IF k > Len(ts) THEN <<>> ELSE TextTokens[ts[k]] \o FlattenText(ts, k + 1)

MessageTexts ==
    {FlattenText(ts, 1) :
        ts \in UNION {[1..n -> 1..Len(TextTokens)] : n \in 0..MaxTextTokens}}

\* \s of the plain pattern, as far as the texts hold it
Whitespace == {" ", NL}

\* the length of what https?:// matches at position i of s, or 0
SchemeLenAt(s, i) ==
    IF MatchesAt(s, SchemeHttps, i) THEN Len(SchemeHttps)
    ELSE IF MatchesAt(s, SchemeHttp, i) THEN Len(SchemeHttp)
    ELSE 0

\* the lowest position >= from of s that holds a character of stop, or -1
FirstOf(s, stop, from) ==
    LET hits == {j \in from..(Len(s) - 1) : s[j + 1] \in stop}
    IN  IF hits = {} THEN -1 ELSE CHOOSE j \in hits : \A k \in hits : j <= k

Match(start, end, url, notation) ==
    [start |-> start, end |-> end, url |-> url, notation |-> notation]

\* SLACK_URL_PATTERN.match at position i: <(https?://[^|>]+)(?:\|[^>]+)?>
SlackMatchAt(s, i) ==
    IF ~(i < Len(s) /\ s[i + 1] = "<") \/ SchemeLenAt(s, i + 1) = 0
    THEN <<>>
    ELSE LET body == i + 1 + SchemeLenAt(s, i + 1)
             j == FirstOf(s, {"|", ">"}, body)
         IN  IF j = -1 \/ j = body
             THEN <<>>
             ELSE IF s[j + 1] = ">"
                  THEN <<Match(i, j + 1, Slice(s, i + 1, j), "slack")>>
                  ELSE LET k == FirstOf(s, {">"}, j + 1)
                       IN  IF k = -1 \/ k = j + 1
                           THEN <<>>
                           ELSE <<Match(i, k + 1, Slice(s, i + 1, j), "slack")>>

\* SLACK_URL_PATTERN.finditer(text) from position i on
RECURSIVE SlackMatchesFrom(_, _)
SlackMatchesFrom(s, i) ==
    IF i >= Len(s)
    THEN <<>>
    ELSE LET m == SlackMatchAt(s, i)
         IN  IF m = <<>>
             THEN SlackMatchesFrom(s, i + 1)
             ELSE m \o SlackMatchesFrom(s, m[1].end)

\* PLAIN_URL_PATTERN.match at position i: https?://[^\s<>]+
PlainMatchAt(s, i) ==
    IF SchemeLenAt(s, i) = 0
    THEN <<>>
    ELSE LET body == i + SchemeLenAt(s, i)
             j == FirstOf(s, Whitespace \cup {"<", ">"}, body)
             e == IF j = -1 THEN Len(s) ELSE j
         IN  IF e = body THEN <<>> ELSE <<Match(i, e, Slice(s, i, e), "plain")>>

\* PLAIN_URL_PATTERN.finditer(text) from position i on
RECURSIVE PlainMatchesFrom(_, _)
PlainMatchesFrom(s, i) ==
    IF i >= Len(s)
    THEN <<>>
    ELSE LET m == PlainMatchAt(s, i)
         IN  IF m = <<>>
             THEN PlainMatchesFrom(s, i + 1)
             ELSE m \o PlainMatchesFrom(s, m[1].end)

\* any(start <= pos < end for start, end in slack_ranges)
InSlackRange(pos, slack) ==
    \E r \in 1..Len(slack) : slack[r].start <= pos /\ pos < slack[r].end

\* the plain matches of list[k..] that do not start inside a Slack range
RECURSIVE PlainOutsideFrom(_, _, _)
PlainOutsideFrom(list, k, slack) ==
    IF k > Len(list)
    THEN <<>>
    ELSE (IF InSlackRange(list[k].start, slack) THEN <<>> ELSE <<list[k]>>)
            \o PlainOutsideFrom(list, k + 1, slack)

\* m put into a list sorted by start, after the entries that start at or before it
RECURSIVE InsertByStart(_, _)
InsertByStart(sorted, m) ==
    IF sorted = <<>>
    THEN <<m>>
    ELSE IF sorted[Len(sorted)].start <= m.start
         THEN Append(sorted, m)
         ELSE Append(InsertByStart(SubSeq(sorted, 1, Len(sorted) - 1), m),
                     sorted[Len(sorted)])

\* the matches left as they were appended: the Slack matches before the plain ones
Unsorted(list, n) == SubSeq(list, 1, n)

\* matches.sort(key=lambda x: x[0]) of the first n entries of list: stable
RECURSIVE SortByStart(_, _)
SortByStart(list, n) ==
    IF n = 0 THEN <<>> ELSE InsertByStart(SortByStart(list, n - 1), list[n])

\* the matches of the text: the Slack matches, then the plain matches outside
\* the Slack ranges, sorted by start
MergedMatches(s) ==
    LET slack == SlackMatchesFrom(s, 0)
        all == slack \o PlainOutsideFrom(PlainMatchesFrom(s, 0), 1, slack)
    IN  SortByStart(all, Len(all))

\* the url of every match, in list order
MatchUrls(list) == [k \in 1..Len(list) |-> list[k].url]

\* the URLs of the matches with their repeats
KeepRepeats(list) == MatchUrls(list)

\* seen = set(); urls: the URLs of the matches without the later repeats
DistinctUrls(list) == UniqueFrom(MatchUrls(list), 1, {})

ExtractInit ==
    /\ ChunkerIdle
    /\ WorkerIdle
    /\ ResolverIdle
    /\ SummarizerIdle
    /\ EscaperIdle
    /\ message_text \in MessageTexts
    /\ epc = "entry"
    /\ matches = <<>>

\* if not text: return ExtractedUrls()
ExtractEmptyText ==
    /\ epc = "entry"
    /\ message_text = <<>>
    /\ extracted' = ExtractedUrls(None, <<>>)
    /\ epc' = "returned"
    /\ UNCHANGED <<message_text, matches, upc, url_index, resolved_main,
                   resolved_supplementary, resolved, resolver_calls, decoder_calls, decoder_started,
                   splitVars, workerVars, fetchVars, escapeVars>>

\* no pattern matches: if not urls: return ExtractedUrls()
ExtractNoUrl ==
    /\ epc = "entry"
    /\ message_text # <<>>
    /\ DistinctUrls(MergedMatches(message_text)) = <<>>
    /\ matches' = MergedMatches(message_text)
    /\ extracted' = ExtractedUrls(None, <<>>)
    /\ epc' = "returned"
    /\ UNCHANGED <<message_text, upc, url_index, resolved_main, resolved_supplementary,
                   resolved, resolver_calls, decoder_calls, decoder_started, splitVars, workerVars, fetchVars, escapeVars>>

\* return ExtractedUrls(main_url=urls[0], supplementary_urls=urls[1:])
ExtractSomeUrls ==
    /\ epc = "entry"
    /\ message_text # <<>>
    /\ LET urls == DistinctUrls(MergedMatches(message_text))
       IN  /\ urls # <<>>
           /\ extracted' = ExtractedUrls(urls[1], SubSeq(urls, 2, Len(urls)))
    /\ matches' = MergedMatches(message_text)
    /\ epc' = "returned"
    /\ UNCHANGED <<message_text, upc, url_index, resolved_main, resolved_supplementary,
                   resolved, resolver_calls, decoder_calls, decoder_started, splitVars, workerVars, fetchVars, escapeVars>>

ExtractNext ==
    \/ ExtractEmptyText
    \/ ExtractNoUrl
    \/ ExtractSomeUrls

ExtractSpec == ExtractInit /\ [][ExtractNext]_vars

(***************************************************************************)
(* Properties of extract_urls (checked under ExtractSpec).                 *)
(***************************************************************************)
\* the URLs of the result: the primary, if any, then the secondary list
ResultUrls ==
    (IF extracted.main_url = None THEN <<>> ELSE <<extracted.main_url>>)
        \o extracted.supplementary_urls

\* C18: the result of extract_urls holds no URL twice across primary and
\* secondary, so a URL matched in wrapped and in bare notation is there once;
\* the primary is absent only when the secondary list is empty; for the
\* empty text both are empty.
C18_NoUrlTwice ==
    epc = "returned" =>
        /\ \A i, j \in 1..Len(ResultUrls) : i # j => ResultUrls[i] # ResultUrls[j]
        /\ \A k \in 1..Len(matches) :
              Cardinality({i \in 1..Len(ResultUrls) : ResultUrls[i] = matches[k].url}) = 1
        /\ extracted.main_url = None => extracted.supplementary_urls = <<>>
        /\ message_text = <<>> =>
              (extracted.main_url = None /\ extracted.supplementary_urls = <<>>)

\* a URL matched in wrapped notation and then again in bare notation is the
\* primary, and the secondary list is empty
C18_Witness ==
    /\ epc = "returned"
    /\ Len(matches) = 2
    /\ matches[1].notation = "slack"
    /\ matches[2].notation = "plain"
    /\ matches[1].url = matches[2].url
    /\ extracted = ExtractedUrls(matches[1].url, <<>>)

\* the set of the entries of a list
Entries(list) == {list[k] : k \in 1..Len(list)}

\* where a URL of the result is matched first
FirstStart(url) ==
    LET starts == {m.start : m \in {n \in Entries(matches) : n.url = url}}
    IN  CHOOSE a \in starts : \A b \in starts : a <= b

\* C19: the merged matches are the wrapped matches and the bare matches that
\* do not start inside the span of a wrapped match, in increasing start
\* offset; the result holds the distinct URLs of these matches in the order
\* of their first appearance, so the primary is the URL of the leftmost match.
C19_UrlsInTextOrder ==
    epc = "returned" =>
        LET slack == Entries(SlackMatchesFrom(message_text, 0))
            plain == Entries(PlainMatchesFrom(message_text, 0))
        IN  /\ \A i, j \in 1..Len(matches) : i < j => matches[i].start < matches[j].start
            /\ Entries(matches) =
                  slack \cup {p \in plain :
                                 ~\E w \in slack : w.start <= p.start /\ p.start < w.end}
            /\ Entries(ResultUrls) = {m.url : m \in Entries(matches)}
            /\ \A i, j \in 1..Len(ResultUrls) :
                  i < j => FirstStart(ResultUrls[i]) < FirstStart(ResultUrls[j])
            /\ matches # <<>> => extracted.main_url = matches[1].url

\* a bare URL before a wrapped one: the bare URL is the primary, the wrapped
\* one the only secondary
C19_Witness ==
    /\ epc = "returned"
    /\ Len(matches) = 2
    /\ matches[1].notation = "plain"
    /\ matches[2].notation = "slack"
    /\ extracted = ExtractedUrls(matches[1].url, <<matches[2].url>>)

\* ==========================================================================
\* fetch_and_summarize(query_func, url, supplementary_urls)
\* ==========================================================================

\* Summary.points: Field(min_length=1, max_length=5)
MinPoints == 1
MaxPoints == 5

\* the longest message stream query_func yields
MaxStream == 2

\* the structured payloads of a ResultMessage: meta is absent, present without
\* its required title, or complete; summary is absent or <<len(points)>>;
\* detail is present or not
Payloads ==
    [meta : {"absent", "incomplete", "ok"},
     summary : {None} \cup {<<n>> : n \in 0..(MaxPoints + 1)},
     detail : BOOLEAN]

\* what query_func yields: ResultMessage objects (is_error, structured_output:
\* None or <<payload>>) and messages of other classes
StreamMessages ==
    [kind : {"ResultMessage"},
     is_error : BOOLEAN,
     structured_output : {None} \cup {<<p>> : p \in Payloads}]
    \cup
    [kind : {"AssistantMessage"}, is_error : {FALSE}, structured_output : {None}]

Streams == UNION {[1..n -> StreamMessages] : n \in 0..MaxStream}

\* a validation that accepts every payload
ValidatesAnything(so) == TRUE

\* StructuredOutput.model_validate(so) raises no ValidationError: meta (with its
\* required fields), summary and detail are there and 1 <= len(points) <= 5
Validates(so) ==
    /\ so.meta = "ok"
    /\ so.summary # None
    /\ so.summary[1] >= MinPoints
    /\ so.summary[1] <= MaxPoints
    /\ so.detail

SummarizeInit ==
    /\ ChunkerIdle
    /\ WorkerIdle
    /\ ResolverIdle
    /\ ExtractorIdle
    /\ EscaperIdle
    /\ fetch_url \in {"", "u"}
    /\ stream \in Streams
    /\ stream_pos = 0
    /\ result_message = None
    /\ fpc = "entry"
    /\ query_invoked = FALSE
    /\ fetch_result = None

\* if not url: raise ValueError
SummarizeEmptyUrl ==
    /\ fpc = "entry"
    /\ fetch_url = ""
    /\ fetch_result' = <<"raise", "ValueError">>
    /\ fpc' = "raised"
    /\ UNCHANGED <<fetch_url, stream, stream_pos, result_message, query_invoked,
                   splitVars, workerVars, extracted, upc, url_index, resolved_main,
                   resolved_supplementary, resolved, resolver_calls, decoder_calls, decoder_started,
                   extractVars, escapeVars>>

\* the prompt and the options are built and query_func(prompt=..., options=...) is called
SummarizeQuery ==
    /\ fpc = "entry"
    /\ fetch_url # ""
    /\ query_invoked' = TRUE
    /\ fpc' = "stream"
    /\ UNCHANGED <<fetch_url, stream, stream_pos, result_message, fetch_result,
                   splitVars, workerVars, extracted, upc, url_index, resolved_main,
                   resolved_supplementary, resolved, resolver_calls, decoder_calls, decoder_started,
                   extractVars, escapeVars>>

\* async for message in ...: if isinstance(message, ResultMessage): result_message = message
StreamYields ==
    /\ fpc = "stream"
    /\ stream_pos < Len(stream)
    /\ stream_pos' = stream_pos + 1
    /\ result_message' =
          IF stream[stream_pos + 1].kind = "ResultMessage"
          THEN <<stream[stream_pos + 1]>>
          ELSE result_message
    /\ UNCHANGED <<fetch_url, stream, fpc, query_invoked, fetch_result,
                   splitVars, workerVars, extracted, upc, url_index, resolved_main,
                   resolved_supplementary, resolved, resolver_calls, decoder_calls, decoder_started,
                   extractVars, escapeVars>>

\* the stream raises instead of yielding or ending: nothing catches it
StreamRaises ==
    /\ fpc = "stream"
    /\ fetch_result' = <<"raise", "QueryException">>
    /\ fpc' = "raised"
    /\ UNCHANGED <<fetch_url, stream, stream_pos, result_message, query_invoked,
                   splitVars, workerVars, extracted, upc, url_index, resolved_main,
                   resolved_supplementary, resolved, resolver_calls, decoder_calls, decoder_started,
                   extractVars, escapeVars>>

\* the stream has ended
StreamEnded ==
    /\ fpc = "stream"
    /\ stream_pos = Len(stream)

\* fetch_and_summarize leaves with an outcome
SummarizeLeaves(pc, outcome) ==
    /\ fetch_result' = outcome
    /\ fpc' = pc
    /\ UNCHANGED <<fetch_url, stream, stream_pos, result_message, query_invoked,
                   splitVars, workerVars, extracted, upc, url_index, resolved_main,
                   resolved_supplementary, resolved, resolver_calls, decoder_calls, decoder_started,
                   extractVars, escapeVars>>

\* if result_message is None: raise NoResultMessageError
SummarizeNoResultMessage ==
    /\ StreamEnded
    /\ result_message = None
    /\ SummarizeLeaves("raised", <<"raise", "NoResultMessageError">>)

\* if result_message.is_error: raise ClaudeAPIError
SummarizeApiError ==
    /\ StreamEnded
    /\ result_message # None
    /\ result_message[1].is_error
    /\ SummarizeLeaves("raised", <<"raise", "ClaudeAPIError">>)

\* if result_message.structured_output is None: raise StructuredOutputError
SummarizeNoStructuredOutput ==
    /\ StreamEnded
    /\ result_message # None
    /\ ~result_message[1].is_error
    /\ result_message[1].structured_output = None
    /\ SummarizeLeaves("raised", <<"raise", "StructuredOutputError">>)

\* except ValidationError as e: raise StructuredOutputError from e
SummarizeValidationError ==
    /\ StreamEnded
    /\ result_message # None
    /\ ~result_message[1].is_error
    /\ result_message[1].structured_output # None
    /\ ~Validates(result_message[1].structured_output[1])
    /\ SummarizeLeaves("raised", <<"raise", "StructuredOutputError">>)

\* the blocks and the texts are built: return EnrichResult(...)
SummarizeReturns ==
    /\ StreamEnded
    /\ result_message # None
    /\ ~result_message[1].is_error
    /\ result_message[1].structured_output # None
    /\ Validates(result_message[1].structured_output[1])
    /\ SummarizeLeaves("returned", <<"return", "EnrichResult">>)

SummarizeNext ==
    \/ SummarizeEmptyUrl
    \/ SummarizeQuery
    \/ StreamYields
    \/ StreamRaises
    \/ SummarizeNoResultMessage
    \/ SummarizeApiError
    \/ SummarizeNoStructuredOutput
    \/ SummarizeValidationError
    \/ SummarizeReturns

SummarizeSpec == SummarizeInit /\ [][SummarizeNext]_vars

\* --------------------------------------------------------------------------
\* Properties of fetch_and_summarize
\* --------------------------------------------------------------------------

RECURSIVE LastResultMessage(_, _)
\* the last ResultMessage among the first n messages of s, as <<message>>, or None
LastResultMessage(s, n) ==
    IF n = 0 THEN None
    ELSE IF s[n].kind = "ResultMessage" THEN <<s[n]>>
    ELSE LastResultMessage(s, n - 1)

\* a payload with meta, summary and detail all there and 1 to 5 points
WellFormed(so) ==
    /\ so.meta = "ok"
    /\ so.summary \in {<<n>> : n \in MinPoints..MaxPoints}
    /\ so.detail = TRUE

\* the stream was read to its end and delivered this result message
Delivered == LastResultMessage(stream, Len(stream))

\* fetch_and_summarize has left and the stream itself did not fail
SummarizeSettled ==
    /\ fpc \in {"returned", "raised"}
    /\ fetch_result # <<"raise", "QueryException">>

\* C20: fetch_and_summarize returns an EnrichResult only when the stream
\* delivered a result message that is not flagged as error and whose payload
\* is there with meta, summary, detail and 1 to 5 points; an empty URL raises
\* ValueError with query_func never called; a stream without a result message
\* raises NoResultMessageError, an error flag ClaudeAPIError, an absent or
\* invalid payload StructuredOutputError; a failing stream never returns.
C20_EnrichResultOnlyForValidPayload ==
    /\ fpc = "returned" =>
          /\ fetch_result = <<"return", "EnrichResult">>
          /\ fetch_url # ""
          /\ query_invoked
          /\ stream_pos = Len(stream)
          /\ Delivered # None
          /\ ~Delivered[1].is_error
          /\ Delivered[1].structured_output # None
          /\ WellFormed(Delivered[1].structured_output[1])
    /\ fpc = "raised" => fetch_result[1] = "raise"
    /\ (fpc \in {"returned", "raised"} /\ fetch_url = "") =>
          /\ fetch_result = <<"raise", "ValueError">>
          /\ ~query_invoked
          /\ stream_pos = 0
    /\ (SummarizeSettled /\ fetch_url # "") =>
          /\ query_invoked
          /\ fetch_result =
                IF Delivered = None
                THEN <<"raise", "NoResultMessageError">>
                ELSE IF Delivered[1].is_error
                THEN <<"raise", "ClaudeAPIError">>
                ELSE IF Delivered[1].structured_output = None
                THEN <<"raise", "StructuredOutputError">>
                ELSE IF ~WellFormed(Delivered[1].structured_output[1])
                THEN <<"raise", "StructuredOutputError">>
                ELSE <<"return", "EnrichResult">>

\* an EnrichResult is returned for a stream of two result messages, the first
\* flagged as error, the second carrying a valid payload with the most points
C20_Witness ==
    /\ fpc = "returned"
    /\ fetch_result = <<"return", "EnrichResult">>
    /\ Len(stream) = MaxStream
    /\ stream[1].kind = "ResultMessage"
    /\ stream[1].is_error
    /\ stream[MaxStream].structured_output # None
    /\ stream[MaxStream].structured_output[1].summary = <<MaxPoints>>

(***************************************************************************)
(* Properties of the cut points of _split_mrkdwn_text (checked under       *)
(* SplitSpec).                                                             *)
(***************************************************************************)
\* s holds no newline, no fence, no entity and no "<" that a later ">" closes
PlainText(s) ==
    /\ \A i \in 1..Len(s) : s[i] # NL
    /\ Find(s, Fence, 0) = -1
    /\ \A e \in 0..(Len(s) - 1) : ~EntityAt(s, e)
    /\ \A a \in 1..Len(s), b \in 1..Len(s) : ~(a < b /\ s[a] = "<" /\ s[b] = ">")

\* the number of slices of length MaxLength that cover n characters
SliceCount(n) == (n + MaxLength - 1) \div MaxLength

\* C21: a text of at most L characters is returned as the single chunk [text];
\* a longer text without newline, fence, link token or entity is returned as
\* its successive slices of length L, the last one holding what is left.
C21_ShortWholeLongPlainSliced ==
    spc = "returned" =>
        /\ Len(text) <= MaxLength => chunks = <<text>>
        /\ (Len(text) > MaxLength /\ PlainText(text)) =>
              /\ Len(chunks) = SliceCount(Len(text))
              /\ \A i \in 1..Len(chunks) :
                    chunks[i] = Slice(text, (i - 1) * MaxLength, i * MaxLength)

\* a plain text longer than L that holds an unclosed "<" was cut into a full
\* slice and a shorter last slice
C21_Witness ==
    /\ spc = "returned"
    /\ Len(text) > MaxLength
    /\ PlainText(text)
    /\ \E i \in 1..Len(text) : text[i] = "<"
    /\ Len(chunks) = 2
    /\ Len(chunks[1]) = MaxLength
    /\ Len(chunks[2]) < MaxLength

\* the position in the input text where the remaining text began when chunk i was cut
ChunkStart(i) == ChunkEnd(i - 1)

\* the effective max length of the iteration that cut chunk i
EffectiveMaxOf(i) == MaxLength - (IF cuts[i].reopen THEN FenceLen ELSE 0)

\* chunk i was cut by the loop while the remaining text exceeded the effective max
CutInLoop(i) == cuts[i].kind \in {"newline", "forced"}

\* index p of the remaining text of iteration i holds a newline of the input
\* that lies outside every fenced-code range
NewlineOutsideCode(i, p) ==
    /\ ChunkStart(i) + p < Len(text)
    /\ text[ChunkStart(i) + p + 1] = NL
    /\ ~IsInsideCodeBlock(ChunkStart(i) + p, FindCodeBlockRanges(text))

\* the newlines at or before the limit: indices 0..effective max
NewlinesUpToLimit(i) == {p \in 0..EffectiveMaxOf(i) : NewlineOutsideCode(i, p)}

\* the newlines strictly between the head of the remaining text and the limit
NewlinesBelowLimit(i) == {p \in 1..(EffectiveMaxOf(i) - 1) : NewlineOutsideCode(i, p)}

Last(S) == CHOOSE p \in S : \A q \in S : q <= p

\* chunk i was cut at the last newline of E when E has one, and by a forced
\* split only when E has none
CutsAtLastOf(i, E) ==
    IF E # {}
    THEN /\ cuts[i].kind = "newline"
         /\ Core(i) = Slice(text, ChunkStart(i), ChunkStart(i) + Last(E))
    ELSE cuts[i].kind = "forced"

\* C22 (as stated): whenever the remaining text exceeds the effective max
\* length and holds a newline at or before that limit outside every fenced-code
\* range, the cut is made at the last such newline; a forced split is made only
\* when there is no such newline.
C22_CutsAtLastNewlineUpToLimit ==
    \A i \in 1..Len(chunks) : CutInLoop(i) => CutsAtLastOf(i, NewlinesUpToLimit(i))

\* C22 (amended): whenever the remaining text exceeds the effective max length,
\* the cut is made at its last newline outside every fenced-code range among
\* the indices 1 .. effective max - 1 (neither the first character of the
\* remaining text nor the character just after the limit counts), the chunk
\* being the text before that newline; a newline inside a fenced-code range is
\* never the newline of a newline cut; a forced split is made exactly when no
\* such newline exists.
C22_CutsAtLastNewlineBelowLimit ==
    \A i \in 1..Len(chunks) :
        CutInLoop(i) =>
            /\ CutsAtLastOf(i, NewlinesBelowLimit(i))
            /\ cuts[i].kind = "newline" =>
                  /\ text[ChunkEnd(i)] = NL
                  /\ ~IsInsideCodeBlock(ChunkEnd(i) - 1, FindCodeBlockRanges(text))

\* a newline cut that passed over a newline inside a fenced-code range lying
\* between the chosen newline and the limit
C22_Witness ==
    /\ spc = "returned"
    /\ \E i \in 1..Len(chunks) :
          /\ cuts[i].kind = "newline"
          /\ \E p \in 1..(EffectiveMaxOf(i) - 1) :
                /\ ChunkStart(i) + p < Len(text)
                /\ ChunkStart(i) + p > ChunkEnd(i) - 1
                /\ text[ChunkStart(i) + p + 1] = NL
                /\ IsInsideCodeBlock(ChunkStart(i) + p, FindCodeBlockRanges(text))

\* the position in the input text where chunk i was cut
CutPoint(i) == ChunkStart(i) + Len(Core(i))

\* pos lies strictly inside a fenced-code range of the input text
StrictlyInsideCode(pos) ==
    LET code_ranges == FindCodeBlockRanges(text)
    IN  \E k \in 1..Len(code_ranges) :
            code_ranges[k][1] < pos /\ pos < code_ranges[k][2]

\* C23: a chunk ends with an injected closing fence, and the next chunk starts
\* with an injected reopen marker, exactly when the final cut point (after the
\* link and entity adjustments) lies strictly inside a fenced-code range of the
\* input text; a cut that the adjustments moved outside the range injects no
\* fence marker into either chunk.
C23_FenceMarkersIffCutInsideCode ==
    \A i \in 1..Len(chunks) :
        CutInLoop(i) =>
            /\ cuts[i].close = StrictlyInsideCode(CutPoint(i))
            /\ i < Len(chunks) => cuts[i + 1].reopen = StrictlyInsideCode(CutPoint(i))

(***************************************************************************)
(* Properties of the time budget of enrich_and_reply_pending_messages      *)
(* (checked under Spec).                                                   *)
(***************************************************************************)
\* the elapsed time at which candidate i of the pass was started
RECURSIVE StartedAt(_)
StartedAt(i) == IF i <= 1 THEN 0 ELSE StartedAt(i - 1) + durations[i - 1]

\* the elapsed time at which candidate i of the pass ended
EndedAt(i) == StartedAt(i) + durations[i]

\* a candidate is in flight
InFlight == rpc = "pass" /\ wpc \notin {"fetch", "check", "idle"}

\* the longest processing time among the candidates of the pass
RECURSIVE LongestOf(_)
LongestOf(i) ==
    IF i = 0 THEN 0
    ELSE IF durations[i] >= LongestOf(i - 1) THEN durations[i] ELSE LongestOf(i - 1)

\* C24: with a time budget B and a discrete clock, no candidate is started at
\* a boundary where elapsed >= B, so at most one candidate ends at or after
\* the expiry of the budget, it is the last one processed, and the elapsed
\* time at which the pass returns is below B plus the processing time of that
\* candidate (and is the sum of the processing times).
C24_OverrunAtMostOneCandidate ==
    timeout # NoTimeout =>
        /\ InFlight => item_start < timeout
        /\ \A i \in 1..Len(durations) :
              /\ StartedAt(i) < timeout
              /\ EndedAt(i) >= timeout => i = Len(durations)
        /\ Cardinality({i \in 1..Len(durations) : EndedAt(i) >= timeout}) <= 1
        /\ Returned =>
              /\ elapsed = (IF durations = <<>> THEN 0 ELSE EndedAt(Len(durations)))
              /\ elapsed <= timeout + LongestOf(Len(durations))
              /\ durations # <<>> => elapsed < timeout + durations[Len(durations)]

\* a pass with budget 2 whose second candidate was started at 1 and ended at
\* 3: the pass timed out before the third candidate, 1 over its budget
C24_Witness ==
    /\ Returned
    /\ timeout = 2
    /\ Len(durations) = 2
    /\ StartedAt(2) = 1
    /\ elapsed = 3
    /\ result[1].timed_out
    /\ result[1].remaining_count = 1

\* ==========================================================================
\* markdown_converter.py: _escape_slack_special_chars(text)
\* ==========================================================================

\* the input text is a concatenation of at most MaxEscapeTokens tokens
MaxEscapeTokens == 5

Http == <<"h", "t", "t", "p", ":", "/", "/">>
Https == <<"h", "t", "t", "p", "s", ":", "/", "/">>
Mailto == <<"m", "a", "i", "l", "t", "o", ":">>

EscapeTokens == << <<"<">>, <<">">>, <<"|">>, <<"&">>, <<"x">>, <<BT>>, Fence, Http >>

RECURSIVE FlattenEscape(_, _)
FlattenEscape(ts, k) ==
    IF k > Len(ts) THEN <<>> ELSE EscapeTokens[ts[k]] \o FlattenEscape(ts, k + 1)

MrkdwnTexts ==
    {FlattenEscape(ts, 1) :
        ts \in UNION {[1..n -> 1..Len(EscapeTokens)] : n \in 0..MaxEscapeTokens}}

\* s.rfind(c, lo, hi) for a one-character c: the highest index in lo..hi-1, or -1
RFindIn(s, c, lo, hi) ==
    LET hits == {i \in lo..(Min(hi, Len(s)) - 1) : s[i + 1] = c}
    IN  IF hits = {} THEN -1 ELSE CHOOSE i \in hits : \A j \in hits : i >= j

\* code_block_pattern matched at index i: the end of the match, or -1.  The
\* fenced alternative is tried first (three backticks, lazily anything, three
\* backticks), then the inline one (a backtick, one or more characters that
\* are no backtick, a backtick).
CodeMatchEnd(s, i) ==
    IF MatchesAt(s, Fence, i) /\ Find(s, Fence, i + 3) # -1
    THEN Find(s, Fence, i + 3) + 3
    ELSE IF /\ i + 1 < Len(s)
            /\ s[i + 1] = BT
            /\ s[i + 2] # BT
            /\ Find(s, <<BT>>, i + 2) # -1
         THEN Find(s, <<BT>>, i + 2) + 1
         ELSE -1

\* code_block_pattern.split(text): the text before the first match, the match,
\* the text between, the next match, ..., the rest
RECURSIVE CodeSplitFrom(_, _, _)
CodeSplitFrom(s, scan, from) ==
    IF scan >= Len(s)
    THEN <<SliceFrom(s, from)>>
    ELSE IF CodeMatchEnd(s, scan) # -1
         THEN <<Slice(s, from, scan), Slice(s, scan, CodeMatchEnd(s, scan))>>
                 \o CodeSplitFrom(s, CodeMatchEnd(s, scan), CodeMatchEnd(s, scan))
         ELSE CodeSplitFrom(s, scan + 1, from)

CodeBlockSplit(s) == CodeSplitFrom(s, 0, 0)

\* _escape_text: & becomes &amp; first, then < becomes &lt; and > becomes &gt;,
\* so that every character is replaced once
RECURSIVE EscapeTextFrom(_, _)
EscapeTextFrom(s, k) ==
    IF k > Len(s)
    THEN <<>>
    ELSE (CASE s[k] = "&" -> EntityAmp
            [] s[k] = "<" -> EntityLt
            [] s[k] = ">" -> EntityGt
            [] OTHER -> <<s[k]>>) \o EscapeTextFrom(s, k + 1)

EscapeText(s) == EscapeTextFrom(s, 1)

\* s.startswith(("http://", "https://", "mailto:"))
StartsWithScheme(s) ==
    \/ MatchesAt(s, Http, 0)
    \/ MatchesAt(s, Https, 0)
    \/ MatchesAt(s, Mailto, 0)

\* what is appended to result: its kind ("code", "text", "link" for <url|label>,
\* "bare" for <url>), the source
\* characters it was made from, the characters appended, and for a link its
\* destination and its label as they stand in the source
Piece(kind, src, out, url, label) ==
    [kind |-> kind, src |-> src, out |-> out, url |-> url, label |-> label]

TextPiece(src) == Piece("text", src, EscapeText(src), <<>>, <<>>)

\* the inner while: the index of the next "<" from search_from that opens
\* http://, https:// or mailto:, or len(text)
RECURSIVE SearchEnd(_, _)
SearchEnd(t, search_from) ==
    LET next_open == Find(t, <<"<">>, search_from)
    IN  IF next_open = -1
        THEN Len(t)
        ELSE IF StartsWithScheme(SliceFrom(t, next_open + 1))
             THEN next_open
             ELSE SearchEnd(t, next_open + 1)

\* the while loop of _escape_non_code_part from pos on
RECURSIVE NonCodeFrom(_, _)
NonCodeFrom(t, pos) ==
    IF pos >= Len(t)
    THEN <<>>
    ELSE
    LET open_pos == Find(t, <<"<">>, pos)
    IN  IF open_pos = -1
        THEN <<TextPiece(SliceFrom(t, pos))>>
        ELSE
        LET before == TextPiece(Slice(t, pos, open_pos))
            pipe_pos == Find(t, <<"|">>, open_pos + 1)
            close_pos == Find(t, <<">">>, open_pos + 1)
            lone == <<before, TextPiece(<<"<">>)>> \o NonCodeFrom(t, open_pos + 1)
        IN  IF pipe_pos # -1 /\ close_pos # -1 /\ pipe_pos < close_pos
            THEN LET final_close == RFindIn(t, ">", pipe_pos + 1, SearchEnd(t, pipe_pos + 1))
                     url == Slice(t, open_pos + 1, pipe_pos)
                     link_text == Slice(t, pipe_pos + 1, final_close)
                 IN  IF final_close >= 0
                     THEN <<before,
                            Piece("link", Slice(t, open_pos, final_close + 1),
                                  <<"<">> \o url \o <<"|">> \o EscapeText(link_text) \o <<">">>,
                                  url, link_text)>>
                              \o NonCodeFrom(t, final_close + 1)
                     ELSE lone
            ELSE IF close_pos # -1
                 THEN LET inner == Slice(t, open_pos + 1, close_pos)
                      IN  IF StartsWithScheme(inner)
                          THEN <<before,
                                 Piece("bare", Slice(t, open_pos, close_pos + 1),
                                       Slice(t, open_pos, close_pos + 1), inner, <<>>)>>
                                   \o NonCodeFrom(t, close_pos + 1)
                          ELSE lone
                 ELSE lone

EscapeNonCodePart(t) == NonCodeFrom(t, 0)

RECURSIVE JoinOut(_, _)
JoinOut(ps, k) == IF k > Len(ps) THEN <<>> ELSE ps[k].out \o JoinOut(ps, k + 1)

EscapeInit ==
    /\ ChunkerIdle
    /\ WorkerIdle
    /\ ResolverIdle
    /\ ExtractorIdle
    /\ SummarizerIdle
    /\ mrkdwn \in MrkdwnTexts
    /\ parts = <<>>
    /\ part_index = 0
    /\ pieces = <<>>
    /\ xpc = "entry"
    /\ escaped = <<>>

\* parts = code_block_pattern.split(text); result = []
EscapeSplit ==
    /\ xpc = "entry"
    /\ parts' = CodeBlockSplit(mrkdwn)
    /\ part_index' = 0
    /\ pieces' = <<>>
    /\ xpc' = "loop"
    /\ UNCHANGED <<mrkdwn, escaped, splitVars, workerVars, extracted, upc, url_index,
                   resolved_main, resolved_supplementary, resolved, resolver_calls,
                   decoder_calls, decoder_started, extractVars, fetchVars>>

\* if i % 2 == 1: result.append(part)
EscapeCodePart ==
    /\ xpc = "loop"
    /\ part_index < Len(parts)
    /\ part_index % 2 = 1
    /\ pieces' = Append(pieces, Piece("code", parts[part_index + 1],
                                      parts[part_index + 1], <<>>, <<>>))
    /\ part_index' = part_index + 1
    /\ UNCHANGED <<mrkdwn, parts, xpc, escaped, splitVars, workerVars, extracted, upc,
                   url_index, resolved_main, resolved_supplementary, resolved,
                   resolver_calls, decoder_calls, decoder_started, extractVars, fetchVars>>

\* else: result.append(_escape_non_code_part(part))
EscapePlainPart ==
    /\ xpc = "loop"
    /\ part_index < Len(parts)
    /\ part_index % 2 = 0
    /\ pieces' = pieces \o EscapeNonCodePart(parts[part_index + 1])
    /\ part_index' = part_index + 1
    /\ UNCHANGED <<mrkdwn, parts, xpc, escaped, splitVars, workerVars, extracted, upc,
                   url_index, resolved_main, resolved_supplementary, resolved,
                   resolver_calls, decoder_calls, decoder_started, extractVars, fetchVars>>

\* return "".join(result)
EscapeJoin ==
    /\ xpc = "loop"
    /\ part_index = Len(parts)
    /\ escaped' = JoinOut(pieces, 1)
    /\ xpc' = "returned"
    /\ UNCHANGED <<mrkdwn, parts, part_index, pieces, splitVars, workerVars, extracted,
                   upc, url_index, resolved_main, resolved_supplementary, resolved,
                   resolver_calls, decoder_calls, decoder_started, extractVars, fetchVars>>

EscapeNext ==
    \/ EscapeSplit
    \/ EscapeCodePart
    \/ EscapePlainPart
    \/ EscapeJoin

EscapeSpec == EscapeInit /\ [][EscapeNext]_vars

\* --------------------------------------------------------------------------
\* Properties of _escape_slack_special_chars (checked under EscapeSpec)
\* --------------------------------------------------------------------------

\* s holds no raw "<" or ">", and every "&" of s starts an entity
NoRawSpecial(s) ==
    \A i \in 1..Len(s) :
        /\ s[i] # "<"
        /\ s[i] # ">"
        /\ s[i] = "&" => EntityAt(s, i - 1)

\* the part of a link's output between its destination and its closing ">"
LabelOut(p) == Slice(p.out, Len(p.url) + 2, Len(p.out) - 1)

\* C25: the escaping pass copies code parts and link destinations unchanged,
\* leaves no raw "<" or ">" and no "&" that does not start an entity in plain
\* text and in link labels, and the only raw "<" and ">" outside code are the
\* delimiters of link tokens whose destination starts with http://, https://
\* or mailto:.
C25_EscapesExactlyUnprotected ==
    xpc = "returned" =>
        \A k \in 1..Len(pieces) :
            LET p == pieces[k]
            IN  /\ p.kind = "code" => p.out = p.src
                /\ p.kind = "text" => NoRawSpecial(p.out)
                /\ p.kind = "bare" =>
                      /\ StartsWithScheme(p.url)
                      /\ p.out = <<"<">> \o p.url \o <<">">>
                /\ p.kind = "link" =>
                      /\ StartsWithScheme(p.url)
                      /\ MatchesAt(p.out, <<"<">> \o p.url \o <<"|">>, 0)
                      /\ p.out[Len(p.out)] = ">"
                      /\ NoRawSpecial(LabelOut(p))

(***************************************************************************)
(* Properties of the bookmark lookup (checked under Spec).                 *)
(***************************************************************************)
\* the fetch_entry calls of the pass made for the candidate at loop index i
CallsFor(i) == {k \in 1..Len(hatebu_calls) : hatebu_calls[k][1] = i}

\* C26: for each candidate the bookmark service is queried at most once, with
\* the resolved primary URL, in the step in which URL resolution returns and
\* before the agent is invoked; it is never queried for a skipped candidate,
\* and never at all when no bookmark client was passed.
C26_LookupOncePerCandidate ==
    /\ [](\A i \in 0..(MaxMessages - 1) : Cardinality(CallsFor(i)) <= 1)
    /\ [](\A k \in 1..Len(hatebu_calls) :
             /\ hatebu_calls[k][1] < Len(messages)
             /\ kinds[messages[hatebu_calls[k][1] + 1]] = "url"
             /\ hatebu_calls[k][2] = ResolvedMainUrl(messages[hatebu_calls[k][1] + 1]))
    /\ [](\A k \in 1..Len(fate) : fate[k][1] = "skipped" => CallsFor(k - 1) = {})
    /\ [](~hatebu_client => hatebu_calls = <<>>)
    /\ [][(hatebu_calls' # hatebu_calls /\ hatebu_calls' # <<>>) =>
            /\ wpc = "resolve"
            /\ wpc' = "hatebu"
            /\ idx' = idx
            /\ hatebu_calls' = Append(hatebu_calls, <<idx, ResolvedMainUrl(Current)>>)]_vars
    /\ [][(wpc' = "hatebu" /\ wpc # "hatebu") => hatebu_calls' # hatebu_calls]_vars
    /\ [][(wpc' = "agent" /\ wpc # "agent") =>
            /\ idx' = idx
            /\ wpc = (IF hatebu_client THEN "hatebu" ELSE "resolve")
            /\ hatebu_client => CallsFor(idx) # {}]_vars
    /\ [][(wpc = "agent" /\ wpc' # "agent") => hatebu_calls' = hatebu_calls]_vars

\* a pass with a bookmark client over a candidate with a URL, one without and
\* another with a URL: the service was queried for the first and the third
C26_Witness ==
    /\ Returned
    /\ hatebu_client
    /\ Len(fate) = 3
    /\ fate[2][1] = "skipped"
    /\ hatebu_calls = <<<<0, ResolvedMainUrl(messages[1])>>, <<2, ResolvedMainUrl(messages[3])>>>>

(***************************************************************************)
(* Progress of _split_mrkdwn_text (checked under SplitSpec).               *)
(***************************************************************************)
\* C27: for an input longer than L (L >= 13), every iteration of the split
\* loop that goes round again has removed at least one character from the
\* remaining text and appended exactly one chunk, also after the fence-cost,
\* link and entity adjustments; no chunk is empty and every chunk holds at
\* least one character of the input; with the strictly decreasing length of
\* the remaining text the loop runs at most Len(text) iterations.
C27_EveryIterationShortens ==
    /\ [][(spc = "loop" /\ spc' = "loop") =>
            /\ Len(remaining') < Len(remaining)
            /\ Len(chunks') = Len(chunks) + 1
            /\ offset' > offset]_vars
    /\ [](Len(text) > MaxLength =>
            \A i \in 1..Len(chunks) :
                /\ chunks[i] # <<>>
                /\ Core(i) # <<>>)
    /\ [](Len(chunks) <= Len(text) + 1)

\* a forced split inside code whose cut, already lowered by the reopen and the
\* closing fence cost, was moved further back by an adjustment
C27_Witness ==
    /\ spc = "returned"
    /\ \E i \in 1..Len(chunks) :
          /\ cuts[i].kind = "forced"
          /\ cuts[i].reopen
          /\ cuts[i].close
          /\ Len(Core(i)) < MaxLength - 2 * FenceLen

(***************************************************************************)
(* timed_out and remaining_count of a pass (checked under Spec).           *)
(***************************************************************************)
\* the elapsed time at the boundary before candidate i (1-based) of the pass,
\* for the boundaries the pass came to
BoundaryTime(i) == IF i = 1 THEN 0 ELSE EndedAt(i - 1)

\* at the boundary before some candidate of the batch the elapsed time had
\* reached the budget
ExpiredAtSomeBoundary ==
    /\ timeout # NoTimeout
    /\ \E i \in 1..Len(messages) :
          /\ i <= Len(durations) + 1
          /\ BoundaryTime(i) >= timeout

\* C28: a pass reports timed_out = TRUE exactly when, at the boundary before
\* some candidate of the batch, elapsed >= budget (inclusive: a budget of 0
\* with a non-empty batch processes nothing).  timed_out = TRUE implies
\* remaining_count >= 1; a budget that expires while the last candidate is
\* processed, an empty batch and an absent budget all give timed_out = FALSE
\* and remaining_count = 0.
C28_TimedOutIffExpiredAtBoundary ==
    Returned =>
        LET r == result[1]
        IN  /\ r.timed_out <=> ExpiredAtSomeBoundary
            /\ r.timed_out => r.remaining_count >= 1
            /\ (~r.timed_out) => r.remaining_count = 0
            /\ (timeout = 0 /\ messages # <<>>) =>
                   (r.timed_out /\ r.processed_count = 0 /\ fate = <<>>)
            /\ (messages = <<>> \/ timeout = NoTimeout) =>
                   (~r.timed_out /\ r.remaining_count = 0)
            /\ (timeout # NoTimeout /\ messages # <<>>
                  /\ Len(durations) = Len(messages)) =>
                   (~r.timed_out /\ r.remaining_count = 0)

\* a pass whose budget of 2 expired while its last candidate was processed:
\* the candidate was started at 1, ended at 3, and the pass did not time out
C28_Witness ==
    /\ Returned
    /\ timeout = 2
    /\ Len(messages) = 2
    /\ Len(durations) = 2
    /\ StartedAt(2) = 1
    /\ elapsed = 3
    /\ ~result[1].timed_out
    /\ result[1].remaining_count = 0

(***************************************************************************)
(* Outcome of a candidate and the replies in its thread (under Spec).      *)
(***************************************************************************)
\* the replies a candidate that failed at position pos has received
RepliesBefore(pos) ==
    CASE pos = "post_summary" -> <<"meta">>
      [] pos = "post_detail" -> <<"meta", "summary">>
      [] OTHER -> <<>>

Candidates == {messages[k] : k \in 1..Len(messages)}

\* the candidates the loop of the pass has been through
Processed == {messages[k] : k \in 1..Len(fate)}

\* the messages the history call of a pass returns
InHistory == {m \in DOMAIN thread : m <= message_limit}

\* a fetch returns, in the order of the history and once each, exactly the
\* messages of the history whose thread has no reply
FetchTakesUnreplied ==
    (rpc = "pass" /\ wpc = "fetch" /\ rpc' = "pass" /\ wpc' = "check") =>
        /\ \A m \in DOMAIN thread :
              (\E k \in 1..Len(messages') : messages'[k] = m)
                  <=> (m \in InHistory /\ thread[m] = <<>>)
        /\ \A j, k \in 1..Len(messages') : j < k => messages'[j] < messages'[k]

\* a thread changes only by a reply to the candidate in flight, which was
\* fetched with no reply in this pass, and stays a prefix of the three parts
OnlyCandidateInFlightExtended ==
    \A m \in DOMAIN thread :
        thread'[m] # thread[m] =>
            /\ rpc = "pass"
            /\ Len(fate) = idx
            /\ idx < Len(messages)
            /\ m = ThreadOf(Current)
            /\ IsPrefix(thread[m], thread'[m])
            /\ IsPrefix(thread'[m], AllParts)

\* a message that is not a candidate of the pass keeps its thread
NonCandidateKept ==
    \A m \in DOMAIN thread :
        (rpc = "pass" /\ wpc # "fetch" /\ m \notin Candidates) => thread'[m] = thread[m]

\* a pass of run after the first has returned
LaterPassReturned == Returned /\ rpc = "sleep" /\ pass_no >= 2

\* C30 as stated: across the passes of run a message is processed again in a
\* later pass exactly when its thread still has zero replies, so a later pass
\* that has returned has been through exactly the messages without a reply;
\* no message gets a second meta reply; a message with a meta reply whose
\* summary or detail post failed is never completed.
C30_ProcessedIffUnreplied ==
    /\ [][OnlyCandidateInFlightExtended /\ NonCandidateKept]_vars
    /\ [](LaterPassReturned =>
            Processed = {m \in DOMAIN thread : thread[m] = <<>>})

\* C30, amended: every pass fetches as its candidates exactly the messages
\* of its history call, which returns message_limit messages of the channel,
\* whose thread has no reply, and processes them in order until the batch is
\* through or the pass times out: the messages it has been through are
\* candidates, and the candidates it has not been through are the
\* remaining_count last ones of a pass that timed out.  A message the pass
\* has been through without a reply is a candidate of the next pass.  No
\* message gets a second meta reply, and a message that is not a candidate
\* keeps its thread, so a thread left at (meta) or (meta, summary) stays as
\* it is.
C30_CandidateIffUnreplied ==
    /\ [][FetchTakesUnreplied /\ OnlyCandidateInFlightExtended /\ NonCandidateKept]_vars
    /\ []((Returned /\ rpc = "sleep") =>
            /\ Processed \subseteq Candidates
            /\ Processed # Candidates =>
                  /\ result[1].timed_out
                  /\ Cardinality(Candidates \ Processed) = result[1].remaining_count
                  /\ Candidates \ Processed =
                        {messages[k] : k \in (Len(fate) + 1)..Len(messages)}
            /\ \A m \in Processed :
                  thread[m] = <<>> =>
                      \E k \in 1..Len(FetchUnrepliedMessages(message_limit)) :
                          FetchUnrepliedMessages(message_limit)[k] = m)

\* a later pass of run over a channel of three messages with a history of
\* two: the message with a reply and the message outside the history are no
\* candidates, and the message that failed before any reply in the pass
\* before has been processed once more, without a reply
C30_Witness ==
    /\ LaterPassReturned
    /\ Len(kinds) = 3
    /\ message_limit = 2
    /\ \E m \in InHistory : thread[m] # <<>> /\ m \notin Candidates
    /\ thread[3] = <<>>
    /\ 3 \notin Candidates
    /\ \E k \in 1..Len(fate) :
          /\ fate[k] = <<"error", "agent">>
          /\ thread[ThreadOf(messages[k])] = <<>>

====
